---- MODULE Spec2Model ----
(***************************************************************************)
(* Gesture extraction and stabilisation of the photo booth: the hand       *)
(* tracker (pinch) and the face tracker (smile) of both builds of the      *)
(* application, the TypeScript one (src/src/lib/ml) and the plain          *)
(* JavaScript one (src/js/ml).                                             *)
(*                                                                         *)
(* Numbers.  Landmark coordinates are integers (pixels).  The code takes   *)
(* Math.sqrt of dx*dx + dy*dy and compares it with a whole threshold; sqrt *)
(* is monotone and exact on perfect squares, so `distance < t` is decided  *)
(* here on the squares, dx*dx + dy*dy < t*t.  Ratios of the face           *)
(* measurements are kept as fractions [num, den] and compared by cross     *)
(* multiplication.                                                         *)
(***************************************************************************)
EXTENDS Integers, Sequences, FiniteSets, TLC

VARIABLES
    variant,                 \* "ts": src/src/lib/ml, "js": src/js/ml
    \* ---- hand tracker module state
    handpose,                \* "null" | "model"
    handLoading,             \* the model-loaded callback is outstanding
    handDetecting,           \* detectStart is delivering results
    handPredictions,         \* predictions: the held snapshot
    handIsReady,             \* isReady (JavaScript build only)
    isPinchingState,
    consecutivePinchFrames,
    handState,               \* the value the last getHandState call returned
    handCall,                \* what the last getHandState call read and decided
    pinchRun,                \* calls in a row, up to the last, classified positive
    handPromise,             \* the promise initHandpose returned
    handError,               \* an exception escaped a callback of the hand model
    \* ---- face tracker module state
    facemesh,                \* "null" | "model"
    faceLoading,             \* the model-loaded callback is outstanding
    faceDetecting,           \* detectStart is delivering results
    facePredictions,         \* predictions: the held snapshot
    faceIsReady,             \* isReady (JavaScript build only)
    isSmiling,
    consecutiveSmileFrames,
    faceState,               \* the value the last getFaceState call returned
    faceCall,                \* what the last getFaceState call read and decided
    smileRun,                \* calls in a row, up to the last, classified positive
    noSmileRun,              \* calls in a row, up to the last, classified negative
    facePromise,             \* the promise initFacemesh returned
    faceError,               \* an exception escaped a callback of the face model
    \* ---- the application
    layout,                  \* where title bar and preview lie in the window
    win,                     \* App.window {x, y}; windowState {x, y} of Desktop.tsx
    pinch,                   \* App.pinch; pinchDragRef.current and its closure
    wasPinching,             \* wasPinchingRef.current (React build)
    lastPinchPos,            \* lastPinchPosRef.current (React build)
    dragStarts,              \* drag starts in the current run of stable-pinch ticks
    handTick,                \* what the hand part of the last detect run did
    viewMode,                \* App.viewMode; viewMode of PhotoBoothApp.tsx
    smileCooldown,           \* App.smileCooldown; smileCooldownRef.current
    cooldownTimers,          \* pending cooldown timers: milliseconds left
    isCapturing,             \* App.capture.isCapturing (JavaScript build)
    countdown,               \* countdown of PhotoBoothApp.tsx (React build)
    sequences,               \* capture sequences suspended in a sleep
    sinceSmile,              \* milliseconds since the smile path last triggered, if it has
    faceTick,                \* what the face part of the last detect run did
    shot,                    \* main.js: how the last finished triggerCapture ended
    handReady,               \* App.ml.handReady; mlReady.hand
    faceReady,               \* App.ml.faceReady; mlReady.face
    loop,                    \* the detect loop: "off" | "running" | "dead"
    rendered,                \* props and state of the last React render
    \* ---- the coordinate mapper taken alone
    mapIn,                   \* a rectangle, a video position and the video element
    mapOut,                  \* the screen position computed from mapIn, if any yet
    \* ---- history of the two held snapshots, kept while an adapter is observed alone
    held,                    \* per adapter: newest result, unread result it replaced, reads
    \* ---- the two builds side by side
    twin,                    \* the other build's extractor state on the same snapshots
    \* ---- the page around the camera
    ui                       \* viewport, App.window's mouse drag, effects page, filter

handVars == <<handpose, handLoading, handDetecting, handPredictions, handIsReady,
              isPinchingState, consecutivePinchFrames, handState, handCall, pinchRun,
              handPromise, handError>>

faceVars == <<facemesh, faceLoading, faceDetecting, facePredictions, faceIsReady,
              isSmiling, consecutiveSmileFrames, faceState, faceCall, smileRun,
              noSmileRun, facePromise, faceError>>

dragVars == <<layout, win, pinch, wasPinching, lastPinchPos, dragStarts, handTick>>

captureVars == <<viewMode, smileCooldown, cooldownTimers, isCapturing, countdown,
                 sequences, sinceSmile, faceTick, shot>>

loopVars == <<handReady, faceReady, loop, rendered>>

appVars == <<dragVars, captureVars, loopVars>>

mapVars == <<mapIn, mapOut>>

vars == <<variant, handVars, faceVars, appVars, mapVars, held, twin, ui>>

\* what the hand tracker's operations, and the face tracker's, never touch
outsideHand == <<variant, faceVars, appVars, mapVars, held, twin, ui>>
outsideFace == <<variant, handVars, appVars, mapVars, held, twin, ui>>

-----------------------------------------------------------------------------
\* Bounds of the model.

\* getHandState is not called once the pinch counter would pass this value.
MaxPinchFrames == 5

\* getFaceState is not called once the smile counter would pass this value.
MaxSmileFrames == 7

\* noSmileRun stops counting here.
MaxNoSmileRun == 6

\* dragStarts stops counting here.
MaxDragStarts == 2

\* No capture sequence is started, and no cooldown timer set, beyond this many
\* pending at once.
MaxSequences == 2

-----------------------------------------------------------------------------
\* Values

\* null / undefined, and a present value v
Null == <<>>
Some(v) == <<v>>

Point(px, py) == [x |-> px, y |-> py]
Keypoint(n, px, py) == [name |-> n, x |-> px, y |-> py]

Abs(n) == IF n < 0 THEN -n ELSE n

\* ---- hand.ts constants
PINCH_THRESHOLD == 40
PINCH_HYSTERESIS == 10
REQUIRED_PINCH_FRAMES == 3

\* ---- hand.js CONFIG
CONFIG_PINCH_THRESHOLD == 40
CONFIG_PINCH_HYSTERESIS == 10
CONFIG_REQUIRED_FRAMES == 3

-----------------------------------------------------------------------------
\* Detection results the hand model may deliver: no hand, or one hand
\* (maxHands: 1) whose keypoints hold a wrist and, each optionally, the two tips.

ThumbTips == {Keypoint("thumb_tip", 100, 100)}

\* distance to the thumb tip:   20, 39.6 (28,28), 40, 40 (24,32), 42.4 (30,30),
\*                              48, 50, 50 (30,40), 60
IndexTips ==
    { Keypoint("index_finger_tip", 120, 100), Keypoint("index_finger_tip", 128, 128),
      Keypoint("index_finger_tip", 140, 100), Keypoint("index_finger_tip", 124, 132),
      Keypoint("index_finger_tip", 130, 130), Keypoint("index_finger_tip", 148, 100),
      Keypoint("index_finger_tip", 150, 100), Keypoint("index_finger_tip", 130, 140),
      Keypoint("index_finger_tip", 160, 100) }

Opt(S) == {Null} \cup {Some(k) : k \in S}

Hands ==
    { [keypoints |-> <<Keypoint("wrist", 90, 200)>> \o t \o i] :
        t \in Opt(ThumbTips), i \in Opt(IndexTips) }

HandResults == {Null} \cup {<<h>> : h \in Hands}

\* what detectStart hands to its callback: results, or nothing at all
Undefined == [defined |-> FALSE, value |-> <<>>]
Defined(v) == [defined |-> TRUE, value |-> v]
HandCallbackArgs == {Defined(r) : r \in HandResults} \cup {Undefined}

\* results appended to what is held instead of replacing it
OrEmpty_Queued(results) ==
    handPredictions \o (IF results.defined THEN results.value ELSE <<>>)

\* results || []   (an array, also an empty one, is truthy)
OrEmpty(results) == IF results.defined THEN results.value ELSE <<>>

-----------------------------------------------------------------------------
\* Array.prototype.find by name: the first keypoint of that name, or undefined.
Find(keypoints, n) ==
    LET hits == {i \in 1..Len(keypoints) : keypoints[i].name = n}
    IN  IF hits = {} THEN Null
        ELSE Some(keypoints[CHOOSE i \in hits : \A j \in hits : i <= j])

\* dx * dx + dy * dy, the square of `distance`
DistanceSq(thumbTip, indexTip) ==
    LET dx == thumbTip.x - indexTip.x
        dy == thumbTip.y - indexTip.y
    IN  dx * dx + dy * dy

\* distance < threshold, for distance = sqrt(distSq) and threshold >= 0
SqrtLess(distSq, threshold) == distSq < threshold * threshold

\* the midpoint of the two tips; the tips of the model have even sums
Midpoint(thumbTip, indexTip) ==
    Point((thumbTip.x + indexTip.x) \div 2, (thumbTip.y + indexTip.y) \div 2)

\* the value returned when no hand, or not both tips, is there
NoHand == [isPinching |-> FALSE, position |-> Null, pinchDistanceSq |-> Null]

-----------------------------------------------------------------------------
\* getHandState of src/src/lib/ml/hand.ts

\* the hysteresis margin applied whether or not a pinch is established
IsPinchingNowTS_AlwaysWide(distSq, stable) ==
    SqrtLess(distSq, PINCH_THRESHOLD + PINCH_HYSTERESIS)

\* hand.ts 84-89: the frame's raw classification
IsPinchingNowTS(distSq, stable) ==
    LET threshold == IF stable THEN PINCH_THRESHOLD + PINCH_HYSTERESIS
                     ELSE PINCH_THRESHOLD
    IN  SqrtLess(distSq, threshold)

\* off by one: the flag needs one frame more than REQUIRED_PINCH_FRAMES
StabilizePinchTS_OffByOne(isPinchingNow, stable, count) ==
    IF isPinchingNow
    THEN [count |-> count + 1,
          stable |-> IF count + 1 > REQUIRED_PINCH_FRAMES THEN TRUE ELSE stable]
    ELSE [count |-> 0, stable |-> FALSE]

\* hand.ts 91-100: the consecutive-frame counter and the stable flag
StabilizePinchTS(isPinchingNow, stable, count) ==
    IF isPinchingNow
    THEN [count |-> count + 1,
          stable |-> IF count + 1 >= REQUIRED_PINCH_FRAMES THEN TRUE ELSE stable]
    ELSE [count |-> 0, stable |-> FALSE]

\* the early return without the two assignments before it
ResetPinchTS_KeepState(stable, count) ==
    [stable |-> stable, count |-> count, ret |-> NoHand, raw |-> "absent"]

\* hand.ts 60-64 and 73-77: the reset taken when the hand or a tip is missing
ResetPinchTS(stable, count) ==
    [stable |-> FALSE, count |-> 0, ret |-> NoHand, raw |-> "absent"]

\* hand.ts 66-71: hand.keypoints.find(...) on a result without a keypoints
\* array throws a TypeError before anything is assigned
ThrowTS(stable, count) ==
    [stable |-> stable, count |-> count, ret |-> NoHand, raw |-> "throw"]

GetHandStateTS(predictions, stable, count) ==
    IF Len(predictions) = 0 THEN ResetPinchTS(stable, count)
    ELSE IF "keypoints" \notin DOMAIN predictions[1] THEN ThrowTS(stable, count)
    ELSE
    LET keypoints == predictions[1].keypoints
        thumbTip  == Find(keypoints, "thumb_tip")
        indexTip  == Find(keypoints, "index_finger_tip")
    IN  IF thumbTip = Null \/ indexTip = Null THEN ResetPinchTS(stable, count)
        ELSE
        LET distSq == DistanceSq(thumbTip[1], indexTip[1])
            isPinchingNow == IsPinchingNowTS(distSq, stable)
            s == StabilizePinchTS(isPinchingNow, stable, count)
        IN  [stable |-> s.stable, count |-> s.count,
             ret |-> [isPinching |-> s.stable,
                      position |-> Some(Midpoint(thumbTip[1], indexTip[1])),
                      pinchDistanceSq |-> Some(distSq)],
             raw |-> IF isPinchingNow THEN "pos" ELSE "neg"]

-----------------------------------------------------------------------------
\* getHandState of the JavaScript build (js/ml/hand.js)

\* no hysteresis: the base threshold also for an established pinch
IsPinchingNowJS_NoHysteresis(distSq, stable) ==
    SqrtLess(distSq, CONFIG_PINCH_THRESHOLD)

\* hand.js 86-91
IsPinchingNowJS(distSq, stable) ==
    LET threshold == IF stable THEN CONFIG_PINCH_THRESHOLD + CONFIG_PINCH_HYSTERESIS
                     ELSE CONFIG_PINCH_THRESHOLD
    IN  SqrtLess(distSq, threshold)

\* the stable flag raised one frame early
StabilizePinchJS_TwoFrames(isPinchingNow, stable, count) ==
    IF isPinchingNow
    THEN [count |-> count + 1,
          stable |-> IF count + 1 >= CONFIG_REQUIRED_FRAMES - 1 THEN TRUE ELSE stable]
    ELSE [count |-> 0, stable |-> FALSE]

\* hand.js 93-102
StabilizePinchJS(isPinchingNow, stable, count) ==
    IF isPinchingNow
    THEN [count |-> count + 1,
          stable |-> IF count + 1 >= CONFIG_REQUIRED_FRAMES THEN TRUE ELSE stable]
    ELSE [count |-> 0, stable |-> FALSE]

\* hand.js 62-66 and 75-79
ResetPinchJS(stable, count) ==
    [stable |-> FALSE, count |-> 0, ret |-> NoHand, raw |-> "absent"]

\* hand.js 68-73: hand.keypoints.find(...) on a result without a keypoints
\* array throws a TypeError before anything is assigned
ThrowJS(stable, count) ==
    [stable |-> stable, count |-> count, ret |-> NoHand, raw |-> "throw"]

GetHandStateJS(isReady, predictions, stable, count) ==
    IF ~isReady \/ Len(predictions) = 0 THEN ResetPinchJS(stable, count)
    ELSE IF "keypoints" \notin DOMAIN predictions[1] THEN ThrowJS(stable, count)
    ELSE
    LET keypoints == predictions[1].keypoints
        thumbTip  == Find(keypoints, "thumb_tip")
        indexTip  == Find(keypoints, "index_finger_tip")
    IN  IF thumbTip = Null \/ indexTip = Null THEN ResetPinchJS(stable, count)
        ELSE
        LET distSq == DistanceSq(thumbTip[1], indexTip[1])
            isPinchingNow == IsPinchingNowJS(distSq, stable)
            s == StabilizePinchJS(isPinchingNow, stable, count)
        IN  [stable |-> s.stable, count |-> s.count,
             ret |-> [isPinching |-> s.stable,
                      position |-> Some(Midpoint(thumbTip[1], indexTip[1])),
                      pinchDistanceSq |-> Some(distSq)],
             raw |-> IF isPinchingNow THEN "pos" ELSE "neg"]

-----------------------------------------------------------------------------
\* Hand tracker: the operations

HandInit ==
    /\ handpose = "null"
    /\ handLoading = FALSE
    /\ handDetecting = FALSE
    /\ handPredictions = <<>>
    /\ handIsReady = FALSE
    /\ isPinchingState = FALSE
    /\ consecutivePinchFrames = 0
    /\ handState = NoHand
    /\ handCall = [read |-> <<>>, ready |-> FALSE, model |-> "null", stable |-> FALSE,
                   count |-> 0, raw |-> "none"]
    /\ pinchRun = 0
    /\ handPromise = "none"
    /\ handError = FALSE

\* initHandpose: ml5.handPose(video, options, callback) is assigned to handpose
\* and the promise stays pending until the model-loaded callback; when the
\* library call throws (ok false) the catch block rejects the promise.
CallInitHandpose(ok) ==
    /\ handpose' = IF ok THEN "model" ELSE handpose
    /\ handLoading' = IF ok THEN TRUE ELSE handLoading
    /\ handPromise' = IF ok THEN "pending" ELSE "rejected"
    /\ UNCHANGED <<handDetecting, handPredictions, handIsReady, isPinchingState,
                   consecutivePinchFrames, handState, handCall, pinchRun, handError>>

InitHandpose ==
    /\ handpose = "null"
    /\ ~handLoading
    /\ \E ok \in BOOLEAN : CallInitHandpose(ok)
    /\ UNCHANGED outsideHand

\* the model-loaded callback: handpose.detectStart(...), then isReady = true
\* (js), then resolve().  With handpose null again (stopped while loading) the
\* call on it throws a TypeError out of the callback and nothing after it runs.
RunHandModelLoaded ==
    /\ handLoading
    /\ handLoading' = FALSE
    /\ IF handpose = "null"
       THEN /\ handError' = TRUE
            /\ UNCHANGED <<handDetecting, handIsReady, handPromise>>
       ELSE /\ handDetecting' = TRUE
            /\ handIsReady' = IF variant = "js" THEN TRUE ELSE handIsReady
            /\ handPromise' = "fulfilled"
            /\ UNCHANGED handError
    /\ UNCHANGED <<handpose, handPredictions, isPinchingState,
                   consecutivePinchFrames, handState, handCall, pinchRun>>

HandModelLoaded ==
    /\ RunHandModelLoaded
    /\ UNCHANGED outsideHand

\* the detectStart callback: predictions = results || []
HandDetectFrom(args) ==
    /\ handDetecting
    /\ \E results \in args : handPredictions' = OrEmpty(results)
    /\ UNCHANGED <<outsideHand, handpose, handLoading, handDetecting, handIsReady,
                   isPinchingState, consecutivePinchFrames, handState, handCall, pinchRun,
                   handPromise, handError>>

HandDetect == HandDetectFrom(HandCallbackArgs)

\* one call of getHandState: what it computes from the module state ...
HandStateCall ==
    IF variant = "ts"
    THEN GetHandStateTS(handPredictions, isPinchingState, consecutivePinchFrames)
    ELSE GetHandStateJS(handIsReady, handPredictions, isPinchingState,
                        consecutivePinchFrames)

\* ... and what it leaves behind; a call that throws returns nothing
RunGetHandState ==
    LET r == HandStateCall
        run == CASE r.raw = "pos" -> pinchRun + 1
                 [] r.raw = "throw" -> pinchRun
                 [] OTHER -> 0
    IN  /\ r.count <= MaxPinchFrames
        /\ run <= MaxPinchFrames
        /\ isPinchingState' = r.stable
        /\ consecutivePinchFrames' = r.count
        /\ handState' = IF r.raw = "throw" THEN handState ELSE r.ret
        /\ handCall' = [read |-> handPredictions, ready |-> handIsReady,
                        model |-> handpose, stable |-> isPinchingState,
                        count |-> consecutivePinchFrames, raw |-> r.raw]
        /\ pinchRun' = run
        /\ UNCHANGED <<handpose, handLoading, handDetecting, handPredictions,
                       handIsReady, handPromise, handError>>

GetHandState ==
    /\ RunGetHandState
    /\ UNCHANGED outsideHand

\* stopHandpose
StopHandpose ==
    /\ IF handpose # "null"
       THEN handDetecting' = FALSE /\ handpose' = "null"
       ELSE UNCHANGED <<handDetecting, handpose>>
    /\ handPredictions' = <<>>
    /\ handIsReady' = FALSE
    /\ UNCHANGED <<outsideHand, handLoading, isPinchingState, consecutivePinchFrames,
                   handState, handCall, pinchRun, handPromise, handError>>

-----------------------------------------------------------------------------
\* Fractions: the face ratios and their thresholds

Ratio(n, d) == [num |-> n, den |-> d]
Zero == Ratio(0, 1)
\* a > b for fractions of positive denominator
Gt(a, b) == a.num * b.den > b.num * a.den
Max(a, b) == IF a >= b THEN a ELSE b
Min(a, b) == IF a <= b THEN a ELSE b

\* ---- face.ts constants
MOUTH_OPEN_THRESHOLD == Ratio(8, 100)
MOUTH_WIDTH_THRESHOLD == Ratio(35, 100)
SMILE_FRAMES_REQUIRED == 5
UPPER_LIP_TOP == 13
LOWER_LIP_BOTTOM == 14
MOUTH_LEFT == 61
MOUTH_RIGHT == 291
FOREHEAD == 10
CHIN == 152

\* ---- face.js LANDMARKS and CONFIG
LANDMARKS ==
    [UPPER_LIP_TOP |-> 13, LOWER_LIP_BOTTOM |-> 14, MOUTH_LEFT |-> 61,
     MOUTH_RIGHT |-> 291, FOREHEAD |-> 10, CHIN |-> 152]
CONFIG_MOUTH_OPEN_THRESHOLD == Ratio(8, 100)
CONFIG_MOUTH_WIDTH_THRESHOLD == Ratio(35, 100)
CONFIG_SMILE_REQUIRED_FRAMES == 5

-----------------------------------------------------------------------------
\* Detection results the face model may deliver: no face, or one face
\* (maxFaces: 1).  Of its keypoints array the model keeps the length and the
\* entries at the six indices the code reads (Null: undefined there).

LandmarkIndices == {10, 13, 14, 61, 152, 291}

\* a face of n keypoints: forehead and chin at heights fy and cy, the lips at
\* heights uy and ly, the mouth corners at lx and rx
Face(n, fy, cy, uy, ly, lx, rx) ==
    [keypoints |->
       [length |-> n,
        at |-> [i \in LandmarkIndices |->
                  IF i >= n THEN Null
                  ELSE CASE i = 10  -> Some(Point(200, fy))
                         [] i = 152 -> Some(Point(200, cy))
                         [] i = 13  -> Some(Point(200, uy))
                         [] i = 14  -> Some(Point(200, ly))
                         [] i = 61  -> Some(Point(lx, 160))
                         [] i = 291 -> Some(Point(rx, 160))]]]

\* the same face with the entry at index i undefined
Without(face, i) ==
    [keypoints |-> [face.keypoints EXCEPT !.at[i] = Null]]

\* Full faces of height 100: mouth height 0, 8, 9 or 9 (lips swapped), mouth
\* width 28, 29 or 29 (corners swapped); the thresholds are passed by a mouth
\* height above 8 and a mouth width above 28.  And one of height 0 with the
\* mouth open and wide.
FullFaces ==
    { Face(468, 100, 200, 150, ly, 100, rx) :
        ly \in {150, 158, 159, 141}, rx \in {128, 129, 71} }
    \cup { Face(468, 100, 100, 150, 159, 100, 129) }

SmilingFace == Face(468, 100, 200, 150, 159, 100, 129)

Faces ==
    FullFaces
    \cup { Face(n, 100, 200, 150, 159, 100, 129) : n \in {0, 399, 400} }
    \cup { Without(SmilingFace, i) : i \in LandmarkIndices }

FaceResults == {Null} \cup {<<f>> : f \in Faces}
FaceCallbackArgs == {Defined(r) : r \in FaceResults} \cup {Undefined}

\* the value returned when nothing can be measured
NoFace == [isSmiling |-> FALSE, mouthOpenness |-> Zero, mouthWidth |-> Null]

-----------------------------------------------------------------------------
\* getFaceState of the TypeScript build (src/lib/ml/face.ts)

\* face.ts 107-117: the two ratios, each 0 when its denominator is not positive
MeasureTS(upperLip, lowerLip, mouthLeft, mouthRight, forehead, chin) ==
    LET faceHeight  == Abs(chin.y - forehead.y)
        mouthHeight == Abs(lowerLip.y - upperLip.y)
        mouthWidth  == Abs(mouthRight.x - mouthLeft.x)
        \* faceHeight * 0.8
        faceWidth   == Ratio(faceHeight * 8, 10)
    IN  [mouthOpenness   |-> IF faceHeight > 0 THEN Ratio(mouthHeight, faceHeight)
                             ELSE Zero,
         mouthWidthRatio |-> IF Gt(faceWidth, Zero)
                             THEN Ratio(mouthWidth * faceWidth.den, faceWidth.num)
                             ELSE Zero]

\* face.ts 122-123
IsSmilingNowTS(mouthOpenness, mouthWidthRatio) ==
    Gt(mouthOpenness, MOUTH_OPEN_THRESHOLD) /\ Gt(mouthWidthRatio, MOUTH_WIDTH_THRESHOLD)

\* the stable smile kept when the counter has decayed to 0
StabilizeSmileTS_StickyFlag(isSmilingNow, smiling, count) ==
    IF isSmilingNow
    THEN [count |-> count + 1,
          smiling |-> IF count + 1 >= SMILE_FRAMES_REQUIRED THEN TRUE ELSE smiling]
    ELSE [count |-> Max(0, count - 1), smiling |-> smiling]

\* face.ts 125-136
StabilizeSmileTS(isSmilingNow, smiling, count) ==
    IF isSmilingNow
    THEN [count |-> count + 1,
          smiling |-> IF count + 1 >= SMILE_FRAMES_REQUIRED THEN TRUE ELSE smiling]
    ELSE [count |-> Max(0, count - 1),
          smiling |-> IF Max(0, count - 1) = 0 THEN FALSE ELSE smiling]

\* face.ts 81-85: no face
ResetSmileTS(smiling, count) ==
    [smiling |-> FALSE, count |-> 0, ret |-> NoFace, raw |-> "absent"]

\* face.ts 90-93 and 103-105: too few keypoints, or a landmark undefined
IncompleteTS(smiling, count) ==
    [smiling |-> smiling, count |-> count, ret |-> NoFace, raw |-> "incomplete"]

GetFaceStateTS(predictions, smiling, count) ==
    IF Len(predictions) = 0 THEN ResetSmileTS(smiling, count)
    ELSE
    LET keypoints == predictions[1].keypoints
    IN  IF keypoints.length < 400 THEN IncompleteTS(smiling, count)
        ELSE
        LET upperLip   == keypoints.at[UPPER_LIP_TOP]
            lowerLip   == keypoints.at[LOWER_LIP_BOTTOM]
            mouthLeft  == keypoints.at[MOUTH_LEFT]
            mouthRight == keypoints.at[MOUTH_RIGHT]
            forehead   == keypoints.at[FOREHEAD]
            chin       == keypoints.at[CHIN]
        IN  IF \/ upperLip = Null \/ lowerLip = Null \/ mouthLeft = Null
               \/ mouthRight = Null \/ forehead = Null \/ chin = Null
            THEN IncompleteTS(smiling, count)
            ELSE
            LET m == MeasureTS(upperLip[1], lowerLip[1], mouthLeft[1], mouthRight[1],
                               forehead[1], chin[1])
                isSmilingNow == IsSmilingNowTS(m.mouthOpenness, m.mouthWidthRatio)
                s == StabilizeSmileTS(isSmilingNow, smiling, count)
            IN  [smiling |-> s.smiling, count |-> s.count,
                 ret |-> [isSmiling |-> s.smiling, mouthOpenness |-> m.mouthOpenness,
                          mouthWidth |-> Some(m.mouthWidthRatio)],
                 raw |-> IF isSmilingNow THEN "pos" ELSE "neg"]

-----------------------------------------------------------------------------
\* getFaceState of src/js/ml/face.js

\* face.js 98-108
MeasureJS(upperLip, lowerLip, mouthLeft, mouthRight, forehead, chin) ==
    LET faceHeight  == Abs(chin.y - forehead.y)
        mouthHeight == Abs(lowerLip.y - upperLip.y)
        mouthWidth  == Abs(mouthRight.x - mouthLeft.x)
        \* faceHeight * 0.8
        faceWidth   == Ratio(faceHeight * 8, 10)
    IN  [mouthOpenness   |-> IF faceHeight > 0 THEN Ratio(mouthHeight, faceHeight)
                             ELSE Zero,
         mouthWidthRatio |-> IF Gt(faceWidth, Zero)
                             THEN Ratio(mouthWidth * faceWidth.den, faceWidth.num)
                             ELSE Zero]

\* either ratio is enough
IsSmilingNowJS_Or(mouthOpenness, mouthWidthRatio) ==
    \/ Gt(mouthOpenness, CONFIG_MOUTH_OPEN_THRESHOLD)
    \/ Gt(mouthWidthRatio, CONFIG_MOUTH_WIDTH_THRESHOLD)

\* face.js 113-115
IsSmilingNowJS(mouthOpenness, mouthWidthRatio) ==
    /\ Gt(mouthOpenness, CONFIG_MOUTH_OPEN_THRESHOLD)
    /\ Gt(mouthWidthRatio, CONFIG_MOUTH_WIDTH_THRESHOLD)

\* the pinch policy: a negative frame clears counter and flag at once
StabilizeSmileJS_HardReset(isSmilingNow, smiling, count) ==
    IF isSmilingNow
    THEN [count |-> count + 1,
          smiling |-> IF count + 1 >= CONFIG_SMILE_REQUIRED_FRAMES THEN TRUE
                      ELSE smiling]
    ELSE [count |-> 0, smiling |-> FALSE]

\* face.js 117-128
StabilizeSmileJS(isSmilingNow, smiling, count) ==
    IF isSmilingNow
    THEN [count |-> count + 1,
          smiling |-> IF count + 1 >= CONFIG_SMILE_REQUIRED_FRAMES THEN TRUE
                      ELSE smiling]
    ELSE [count |-> Max(0, count - 1),
          smiling |-> IF Max(0, count - 1) = 0 THEN FALSE ELSE smiling]

\* the 1-per-frame decay taken for a missing face as well
ResetSmileJS_Decay(smiling, count) ==
    [smiling |-> IF Max(0, count - 1) = 0 THEN FALSE ELSE smiling,
     count |-> Max(0, count - 1), ret |-> NoFace, raw |-> "absent"]

\* face.js 72-76: not ready, or no face
ResetSmileJS(smiling, count) ==
    [smiling |-> FALSE, count |-> 0, ret |-> NoFace, raw |-> "absent"]

\* face.js 81-84 and 94-96: too few keypoints, or a landmark undefined
IncompleteJS(smiling, count) ==
    [smiling |-> smiling, count |-> count, ret |-> NoFace, raw |-> "incomplete"]

GetFaceStateJS(isReady, predictions, smiling, count) ==
    IF ~isReady \/ Len(predictions) = 0 THEN ResetSmileJS(smiling, count)
    ELSE
    LET keypoints == predictions[1].keypoints
    IN  IF keypoints.length < 400 THEN IncompleteJS(smiling, count)
        ELSE
        LET upperLip   == keypoints.at[LANDMARKS.UPPER_LIP_TOP]
            lowerLip   == keypoints.at[LANDMARKS.LOWER_LIP_BOTTOM]
            mouthLeft  == keypoints.at[LANDMARKS.MOUTH_LEFT]
            mouthRight == keypoints.at[LANDMARKS.MOUTH_RIGHT]
            forehead   == keypoints.at[LANDMARKS.FOREHEAD]
            chin       == keypoints.at[LANDMARKS.CHIN]
        IN  IF \/ upperLip = Null \/ lowerLip = Null \/ mouthLeft = Null
               \/ mouthRight = Null \/ forehead = Null \/ chin = Null
            THEN IncompleteJS(smiling, count)
            ELSE
            LET m == MeasureJS(upperLip[1], lowerLip[1], mouthLeft[1], mouthRight[1],
                               forehead[1], chin[1])
                isSmilingNow == IsSmilingNowJS(m.mouthOpenness, m.mouthWidthRatio)
                s == StabilizeSmileJS(isSmilingNow, smiling, count)
            IN  [smiling |-> s.smiling, count |-> s.count,
                 ret |-> [isSmiling |-> s.smiling, mouthOpenness |-> m.mouthOpenness,
                          mouthWidth |-> Some(m.mouthWidthRatio)],
                 raw |-> IF isSmilingNow THEN "pos" ELSE "neg"]

-----------------------------------------------------------------------------
\* Face tracker: the operations

FaceInit ==
    /\ facemesh = "null"
    /\ faceLoading = FALSE
    /\ faceDetecting = FALSE
    /\ facePredictions = <<>>
    /\ faceIsReady = FALSE
    /\ isSmiling = FALSE
    /\ consecutiveSmileFrames = 0
    /\ faceState = NoFace
    /\ faceCall = [read |-> <<>>, ready |-> FALSE, model |-> "null", smiling |-> FALSE,
                   count |-> 0, raw |-> "none"]
    /\ smileRun = 0
    /\ noSmileRun = 0
    /\ facePromise = "none"
    /\ faceError = FALSE

\* initFacemesh: ml5.faceMesh(video, options, callback) is assigned to facemesh
\* and the promise stays pending until the model-loaded callback; when the
\* library call throws (ok false) the catch block rejects the promise.
CallInitFacemesh(ok) ==
    /\ facemesh' = IF ok THEN "model" ELSE facemesh
    /\ faceLoading' = IF ok THEN TRUE ELSE faceLoading
    /\ facePromise' = IF ok THEN "pending" ELSE "rejected"
    /\ UNCHANGED <<faceDetecting, facePredictions, faceIsReady, isSmiling,
                   consecutiveSmileFrames, faceState, faceCall, smileRun, noSmileRun,
                   faceError>>

InitFacemesh ==
    /\ facemesh = "null"
    /\ ~faceLoading
    /\ \E ok \in BOOLEAN : CallInitFacemesh(ok)
    /\ UNCHANGED outsideFace

\* the model-loaded callback: facemesh.detectStart(...), then isReady = true
\* (js), then resolve().  With facemesh null again (stopped while loading) the
\* call on it throws a TypeError out of the callback and nothing after it runs.
RunFaceModelLoaded ==
    /\ faceLoading
    /\ faceLoading' = FALSE
    /\ IF facemesh = "null"
       THEN /\ faceError' = TRUE
            /\ UNCHANGED <<faceDetecting, faceIsReady, facePromise>>
       ELSE /\ faceDetecting' = TRUE
            /\ faceIsReady' = IF variant = "js" THEN TRUE ELSE faceIsReady
            /\ facePromise' = "fulfilled"
            /\ UNCHANGED faceError
    /\ UNCHANGED <<facemesh, facePredictions, isSmiling,
                   consecutiveSmileFrames, faceState, faceCall, smileRun, noSmileRun>>

FaceModelLoaded ==
    /\ RunFaceModelLoaded
    /\ UNCHANGED outsideFace

\* the detectStart callback: predictions = results || []
FaceDetectFrom(args) ==
    /\ faceDetecting
    /\ \E results \in args : facePredictions' = OrEmpty(results)
    /\ UNCHANGED <<outsideFace, facemesh, faceLoading, faceDetecting, faceIsReady,
                   isSmiling, consecutiveSmileFrames, faceState, faceCall, smileRun,
                   noSmileRun, facePromise, faceError>>

FaceDetect == FaceDetectFrom(FaceCallbackArgs)

\* one call of getFaceState: what it computes from the module state ...
FaceStateCall ==
    IF variant = "ts"
    THEN GetFaceStateTS(facePredictions, isSmiling, consecutiveSmileFrames)
    ELSE GetFaceStateJS(faceIsReady, facePredictions, isSmiling,
                        consecutiveSmileFrames)

\* ... and what it leaves behind
RunGetFaceState ==
    LET r == FaceStateCall
    IN  /\ r.count <= MaxSmileFrames
        /\ isSmiling' = r.smiling
        /\ consecutiveSmileFrames' = r.count
        /\ faceState' = r.ret
        /\ faceCall' = [read |-> facePredictions, ready |-> faceIsReady,
                        model |-> facemesh, smiling |-> isSmiling,
                        count |-> consecutiveSmileFrames, raw |-> r.raw]
        /\ smileRun' = IF r.raw = "pos" THEN Min(smileRun + 1, MaxSmileFrames) ELSE 0
        /\ noSmileRun' = IF r.raw = "neg" THEN Min(noSmileRun + 1, MaxNoSmileRun) ELSE 0
        /\ UNCHANGED <<facemesh, faceLoading, faceDetecting,
                       facePredictions, faceIsReady, facePromise, faceError>>

GetFaceState ==
    /\ RunGetFaceState
    /\ UNCHANGED outsideFace

\* stopFacemesh
StopFacemesh ==
    /\ IF facemesh # "null"
       THEN faceDetecting' = FALSE /\ facemesh' = "null"
       ELSE UNCHANGED <<faceDetecting, facemesh>>
    /\ facePredictions' = <<>>
    /\ faceIsReady' = FALSE
    /\ UNCHANGED <<outsideFace, faceLoading, isSmiling, consecutiveSmileFrames,
                   faceState, faceCall, smileRun, noSmileRun, facePromise, faceError>>

-----------------------------------------------------------------------------
\* Screen space.  The mapper divides by the video dimensions, so a horizontal
\* screen coordinate is a rational of denominator videoWidth and a vertical
\* one a rational of denominator videoHeight.  The model keeps the numerators:
\* the point (sx, sy) below is the screen point (sx / videoWidth,
\* sy / videoHeight) in pixels, and a length of n whole pixels is n * videoWidth
\* across and n * videoHeight down.

\* videoEl.videoWidth || 640, videoEl.videoHeight || 480
VideoWidth(videoEl) == IF videoEl.videoWidth = 0 THEN 640 ELSE videoEl.videoWidth
VideoHeight(videoEl) == IF videoEl.videoHeight = 0 THEN 480 ELSE videoEl.videoHeight

\* a DOMRect: left and top are screen coordinates, width and height whole pixels
Rect(l, t, w, h, videoEl) ==
    [left |-> l, top |-> t, width |-> w, height |-> h,
     right |-> l + w * VideoWidth(videoEl), bottom |-> t + h * VideoHeight(videoEl)]

\* the horizontal axis left as it is in the video
ScreenPosJS_NotMirrored(previewRect, position, videoEl) ==
    [x |-> previewRect.left + position.x * previewRect.width,
     y |-> previewRect.top + position.y * previewRect.height]

\* main.js 544-553:
\*   screenX = previewRect.left + (1 - position.x / videoWidth) * previewRect.width
\*   screenY = previewRect.top + (position.y / videoHeight) * previewRect.height
ScreenPosJS(previewRect, position, videoEl) ==
    [x |-> previewRect.left + (VideoWidth(videoEl) - position.x) * previewRect.width,
     y |-> previewRect.top + position.y * previewRect.height]

\* PhotoBoothApp.tsx 290-295:
\*   screenX = windowX + (1 - position.x / videoWidth) * windowWidth
\*   screenY = windowY + 22 + (position.y / videoHeight) * 350
ScreenPosTS(windowX, windowY, windowWidth, position, videoEl) ==
    [x |-> windowX + (VideoWidth(videoEl) - position.x) * windowWidth,
     y |-> windowY + 22 * VideoHeight(videoEl) + position.y * 350]

\* ---- the mapper taken alone: inputs, and the one step that applies it

\* video elements: 640x480, one that does not report its size yet, 1280x720
MapVideoEls ==
    { [videoWidth |-> 640, videoHeight |-> 480], [videoWidth |-> 0, videoHeight |-> 0],
      [videoWidth |-> 1280, videoHeight |-> 720] }

\* rectangles in whole pixels; the React build maps into (windowX, windowY + 22,
\* windowWidth, 350), so its rectangles all have that height
MapInputs ==
    { [rect |-> [left |-> l, top |-> t, width |-> w, height |-> h],
       position |-> Point(vx, vy), videoEl |-> v] :
        l \in {0, 100}, t \in {22, 50}, w \in {600, 640}, h \in {22, 350, 480},
        vx \in {0, 110, 320, 640, 1280}, vy \in {0, 100, 480, 720},
        v \in MapVideoEls }

NoMapInput ==
    [rect |-> [left |-> 0, top |-> 0, width |-> 0, height |-> 0],
     position |-> Point(0, 0), videoEl |-> [videoWidth |-> 0, videoHeight |-> 0]]

MapIdle ==
    /\ mapIn = NoMapInput
    /\ mapOut = Null

\* the rectangle of mapIn as the build at hand sees it
MapRect ==
    Rect(mapIn.rect.left * VideoWidth(mapIn.videoEl),
         mapIn.rect.top * VideoHeight(mapIn.videoEl),
         mapIn.rect.width, mapIn.rect.height, mapIn.videoEl)

ApplyScreenPos ==
    /\ mapOut = Null
    /\ mapIn # NoMapInput
    /\ mapOut' =
          IF variant = "js"
          THEN Some(ScreenPosJS(MapRect, mapIn.position, mapIn.videoEl))
          ELSE Some(ScreenPosTS(MapRect.left,
                                MapRect.top - 22 * VideoHeight(mapIn.videoEl),
                                mapIn.rect.width, mapIn.position, mapIn.videoEl))
    /\ UNCHANGED <<variant, handVars, faceVars, appVars, mapIn, held, twin, ui>>

-----------------------------------------------------------------------------
\* The application: main.js (js) and Desktop.tsx with PhotoBoothApp.tsx (ts)

\* the <video> element; both builds capture 640x480
VideoEl == [videoWidth |-> 640, videoHeight |-> 480]

\* n whole pixels across, and down, as screen coordinates
PxX(n) == n * VideoWidth(VideoEl)
PxY(n) == n * VideoHeight(VideoEl)

\* main.js 10-11
TOTAL_PAGES == 2
FILTERS_PER_PAGE == 9

\* the page as it is loaded: a viewport of 840 by 300 pixels, no resize event
\* due, App.window.isDragging false and dragOffset (0, 0), the first effects
\* page, and the sketch's currentFilter "normal"; last is the handler that ran
\* last and arg the page it was asked for
NoUi ==
    [innerWidth |-> 840, innerHeight |-> 300, resized |-> FALSE,
     isDragging |-> FALSE, dragOffset |-> Point(0, 0),
     currentPage |-> 0, currentFilter |-> "normal",
     last |-> "none", arg |-> 0]

\* window.innerWidth and window.innerHeight
InnerWidth == ui.innerWidth
InnerHeight == ui.innerHeight

\* An element's box inside the window box, in whole pixels.
Box(l, t, w, h) == [left |-> l, top |-> t, width |-> w, height |-> h]

\* The page of the JavaScript build: where the title bar and the preview
\* container lie in the window.  "below" puts the preview under a title bar of
\* 22 pixels; "hotzone" lets the mapper target the title bar's own rectangle.
Layouts ==
    { [name |-> "below", titlebar |-> Box(0, 0, 640, 22),
       preview |-> Box(0, 22, 640, 480), offsetWidth |-> 640, offsetHeight |-> 502],
      [name |-> "hotzone", titlebar |-> Box(0, 0, 640, 22),
       preview |-> Box(0, 0, 640, 22), offsetWidth |-> 640, offsetHeight |-> 502] }

\* The React build: windowState of Desktop.tsx, the title bar of 22 pixels and
\* the preview of 350 that handlePinchStart and detect assume.
ReactLayout ==
    [name |-> "react", titlebar |-> Box(0, 0, 640, 22),
     preview |-> Box(0, 22, 640, 350), offsetWidth |-> 640, offsetHeight |-> 520]

\* element.getBoundingClientRect() of an element of the window at position w
ElementRect(w, box) ==
    Rect(w.x + PxX(box.left), w.y + PxY(box.top), box.width, box.height, VideoEl)

\* centerWindow (main.js 324-333) and the mount effect of Desktop.tsx 50-59
CenterWindow(lay) ==
    Point(Max(PxX(50), (PxX(InnerWidth - lay.offsetWidth)) \div 2),
          Max(PxY(40), (PxY(InnerHeight - lay.offsetHeight)) \div 2))

\* App.pinch of main.js; in the React build pinchDragRef.current, whose closure
\* holds the window state and the pinch position of the moment it was made
NoPinch == [active |-> FALSE, startWindowPos |-> Point(0, 0), startPinchPos |-> Point(0, 0)]

\* ---- main.js handlePinchDrag

\* main.js 558-563
InsideTitlebarJS(screen, titlebarRect) ==
    /\ screen.x >= titlebarRect.left
    /\ screen.x <= titlebarRect.right
    /\ screen.y >= titlebarRect.top
    /\ screen.y <= titlebarRect.bottom

\* the session is not marked active
DragStartJS_NotMarked(w, screen) ==
    [active |-> FALSE, startWindowPos |-> w, startPinchPos |-> screen]

\* main.js 564-566
DragStartJS(w, screen) ==
    [active |-> TRUE, startWindowPos |-> w, startPinchPos |-> screen]

\* the window's anchor left out of the sum
DragRequestJS_NoWindowAnchor(p, screen) ==
    Point(screen.x - p.startPinchPos.x, screen.y - p.startPinchPos.y)

\* main.js 570-571 and the first arguments of Math.min in 576 and 582
DragRequestJS(p, screen) ==
    Point(p.startWindowPos.x + (screen.x - p.startPinchPos.x),
          p.startWindowPos.y + (screen.y - p.startPinchPos.y))

\* the upper bounds applied last, so they win over the lower ones
ClampWindowJS_UpperLast(requested, lay) ==
    Point(Min(Max(0, requested.x), PxX(InnerWidth - lay.offsetWidth)),
          Min(Max(PxY(24), requested.y), PxY(InnerHeight - 50)))

\* main.js 573-583
ClampWindowJS(requested, lay) ==
    Point(Max(0, Min(requested.x, PxX(InnerWidth - lay.offsetWidth))),
          Max(PxY(24), Min(requested.y, PxY(InnerHeight - 50))))

\* the session outlives the release
DragEndJS_StaysActive(p) == p

\* main.js 587-592
DragEndJS(p) == [p EXCEPT !.active = FALSE]

\* main.js 540-593; the video element is there once the loop runs
HandlePinchDragJS(state, p, w, lay) ==
    IF state.isPinching /\ state.position # Null
    THEN LET previewRect == ElementRect(w, lay.preview)
             screen == ScreenPosJS(previewRect, state.position[1], VideoEl)
         IN  IF ~p.active
             THEN IF InsideTitlebarJS(screen, ElementRect(w, lay.titlebar))
                  THEN [pinch |-> DragStartJS(w, screen), win |-> w,
                        wasPinching |-> FALSE, lastPinchPos |-> Null,
                        screen |-> Some(screen), requested |-> Null, effect |-> "start"]
                  ELSE [pinch |-> p, win |-> w,
                        wasPinching |-> FALSE, lastPinchPos |-> Null,
                        screen |-> Some(screen), requested |-> Null, effect |-> "none"]
             ELSE LET requested == DragRequestJS(p, screen)
                  IN  [pinch |-> p, win |-> ClampWindowJS(requested, lay),
                       wasPinching |-> FALSE, lastPinchPos |-> Null,
                       screen |-> Some(screen), requested |-> Some(requested),
                       effect |-> "move"]
    ELSE IF p.active
         THEN [pinch |-> DragEndJS(p), win |-> w,
               wasPinching |-> FALSE, lastPinchPos |-> Null,
               screen |-> Null, requested |-> Null, effect |-> "end"]
         ELSE [pinch |-> p, win |-> w,
               wasPinching |-> FALSE, lastPinchPos |-> Null,
               screen |-> Null, requested |-> Null, effect |-> "none"]

\* ---- Desktop.tsx and the hand part of detect in PhotoBoothApp.tsx

\* Desktop.tsx 61-67
HandleWindowMove(x, y) ==
    Point(Max(0, Min(x, PxX(InnerWidth - 100))),
          Max(PxY(20), Min(y, PxY(InnerHeight - 50))))

\* Desktop.tsx 74-83; windowState is the state of the render that made the
\* callback
OverTitleBar(pinchX, pinchY, windowState) ==
    LET titleBarTop == windowState.y
        titleBarBottom == windowState.y + PxY(22)
        windowLeft == windowState.x
        windowRight == windowState.x + PxX(windowState.width)
    IN  /\ pinchX >= windowLeft
        /\ pinchX <= windowRight
        /\ pinchY >= titleBarTop
        /\ pinchY <= titleBarBottom

\* Desktop.tsx 70-100; ref is the value of pinchDragRef.current
HandlePinchStart(pinchX, pinchY, windowState, ref) ==
    IF OverTitleBar(pinchX, pinchY, windowState)
    THEN [active |-> TRUE,
          startWindowPos |-> Point(windowState.x, windowState.y),
          startPinchPos |-> Point(pinchX, pinchY)]
    ELSE ref

\* Desktop.tsx 84-89: the position the installed onPinchMove asks for
OnPinchMoveRequest(ref, newX, newY) ==
    Point(ref.startWindowPos.x + (newX - ref.startPinchPos.x),
          ref.startWindowPos.y + (newY - ref.startPinchPos.y))

\* PhotoBoothApp.tsx 285-312; props holds windowX, windowY and windowWidth of
\* the render the loop's closure was made in
DetectHandTS(state, ref, w, props, was, last) ==
    IF state.isPinching /\ state.position # Null
    THEN LET screen == ScreenPosTS(props.x, props.y, props.width,
                                   state.position[1], VideoEl)
         IN  IF ~was
             THEN LET installed == HandlePinchStart(screen.x, screen.y, props, ref)
                  IN  [pinch |-> installed, win |-> w,
                       wasPinching |-> TRUE, lastPinchPos |-> Some(screen),
                       screen |-> Some(screen), requested |-> Null,
                       effect |-> IF OverTitleBar(screen.x, screen.y, props)
                                  THEN "start" ELSE "none"]
             ELSE IF ref.active /\ last # Null
             THEN LET requested == OnPinchMoveRequest(ref, screen.x, screen.y)
                  IN  [pinch |-> ref, win |-> HandleWindowMove(requested.x, requested.y),
                       wasPinching |-> was, lastPinchPos |-> Some(screen),
                       screen |-> Some(screen), requested |-> Some(requested),
                       effect |-> "move"]
             ELSE [pinch |-> ref, win |-> w, wasPinching |-> was, lastPinchPos |-> last,
                   screen |-> Some(screen), requested |-> Null, effect |-> "none"]
    ELSE [pinch |-> IF was /\ ref.active THEN NoPinch ELSE ref, win |-> w,
          wasPinching |-> FALSE, lastPinchPos |-> Null,
          screen |-> Null, requested |-> Null,
          effect |-> IF was /\ ref.active THEN "end" ELSE "none"]

\* ---- the smile path and the capture sequence

\* the delay of the cooldown timer (main.js 603-605, PhotoBoothApp.tsx 326-328)
\* and of one countdown step (main.js 632, PhotoBoothApp.tsx 84), milliseconds
SMILE_COOLDOWN_MS == 3000
COUNTDOWN_STEP_MS == 1000

\* no smile capture while a drag session is active
SmileGateJS_NotWhileDragging(state, cooldown, capturing) ==
    state.isSmiling /\ ~cooldown /\ ~capturing /\ ~pinch.active

\* main.js 599
SmileGateJS(state, cooldown, capturing) ==
    state.isSmiling /\ ~cooldown /\ ~capturing

\* the cooldown flag left out of the test
SmileGateTS_NoCooldown(state, cooldown, closureCountdown) ==
    state.isSmiling /\ closureCountdown = Null

\* PhotoBoothApp.tsx 318-322; closureCountdown is the countdown of the render
\* the loop's closure was made in
SmileGateTS(state, cooldown, closureCountdown) ==
    state.isSmiling /\ ~cooldown /\ closureCountdown = Null

\* main.js 622: triggerCapture goes on unless a capture is in progress
TriggerCaptureStarts(capturing) == ~capturing

\* PhotoBoothApp.tsx 79: capturePhoto goes on when the main canvas is mounted
\* (it is in the single view only) and its closure's countdown is null
CapturePhotoStarts(mainCanvasMounted, closureCountdown) ==
    mainCanvasMounted /\ closureCountdown = Null

\* a capture sequence suspended in its first sleep (main.js 629-633,
\* PhotoBoothApp.tsx 82-84)
NewSequence == [left |-> COUNTDOWN_STEP_MS, step |-> 3]

\* a sequence list without its k-th entry
Remove(seq, k) == SubSeq(seq, 1, k - 1) \o SubSeq(seq, k + 1, Len(seq))

\* every pending timer one step of time nearer
Elapse(left, ms) == Max(0, left - ms)

-----------------------------------------------------------------------------
\* What the camera shows while the application runs.

MakeHand(tx, ty, ix, iy) ==
    [keypoints |-> <<Keypoint("wrist", 90, 200), Keypoint("thumb_tip", tx, ty),
                     Keypoint("index_finger_tip", ix, iy)>>]

\* pinches (d = 20) whose midpoints are (110, 100) and, on the upper edge of
\* the frame, (310, 0); an open hand (d = 60); and a result that lacks the
\* keypoints array
AppHands ==
    { MakeHand(100, 100, 120, 100), MakeHand(300, 0, 320, 0),
      MakeHand(100, 100, 160, 100), [handedness |-> "Right"] }

AppHandArgs == {Defined(Null)} \cup {Defined(<<h>>) : h \in AppHands}

\* a smiling face comes into view and leaves it
AppFaces == { SmilingFace }

AppFaceArgs == {Defined(Null)} \cup {Defined(<<f>>) : f \in AppFaces}

HandDetectApp == HandDetectFrom(AppHandArgs)
FaceDetectApp == FaceDetectFrom(AppFaceArgs)

-----------------------------------------------------------------------------
\* The application: state and steps

\* what a React render hands to the closures made in it
RenderOf(w, c, v) ==
    [x |-> w.x, y |-> w.y, width |-> layout.offsetWidth, countdown |-> c, viewMode |-> v]

Render == RenderOf(win, countdown, viewMode)

NoHandTick ==
    [path |-> "none", wasStable |-> FALSE, activeBefore |-> FALSE,
     windowBefore |-> Point(0, 0), pinching |-> FALSE, screen |-> Null,
     requested |-> Null, effect |-> "none"]

NoFaceTick ==
    [path |-> "none", smiling |-> FALSE, gateBefore |-> FALSE, busyBefore |-> FALSE,
     fresh |-> TRUE, triggered |-> FALSE, gap |-> Null]

AppInit ==
    /\ layout \in (IF variant = "js" THEN Layouts ELSE {ReactLayout})
    /\ win = CenterWindow(layout)
    /\ pinch = NoPinch
    /\ wasPinching = FALSE
    /\ lastPinchPos = Null
    /\ dragStarts = 0
    /\ handTick = NoHandTick
    /\ viewMode = "grid"
    /\ smileCooldown = FALSE
    /\ cooldownTimers = <<>>
    /\ isCapturing = FALSE
    /\ countdown = Null
    /\ sequences = <<>>
    /\ sinceSmile = Null
    /\ faceTick = NoFaceTick
    /\ shot = "none"
    /\ handReady = FALSE
    /\ faceReady = FALSE
    /\ loop = "off"
    /\ rendered = Render

\* onVideoReady (main.js 405-415) and initML (PhotoBoothApp.tsx 254-265) up to
\* the await: both trackers are initialised
OnVideoReady ==
    /\ loop = "off"
    /\ handPromise = "none" /\ facePromise = "none"
    /\ \E okHand \in BOOLEAN : CallInitHandpose(okHand)
    /\ \E okFace \in BOOLEAN : CallInitFacemesh(okFace)
    /\ UNCHANGED <<variant, mapVars, held, twin, ui, appVars>>

\* a tracker taken as ready once its promise has settled, either way
ReadyOf_Settled(status) == status \in {"fulfilled", "rejected"}

\* main.js 416-431: results[i].status === "fulfilled"
ReadyOf(status) == status = "fulfilled"

\* main.js 411-437: Promise.allSettled has both results; the loop is started
OnInitSettledJS ==
    /\ variant = "js"
    /\ loop = "off"
    /\ handPromise \in {"fulfilled", "rejected"}
    /\ facePromise \in {"fulfilled", "rejected"}
    /\ handReady' = ReadyOf(handPromise)
    /\ faceReady' = ReadyOf(facePromise)
    /\ loop' = "running"
    /\ UNCHANGED <<variant, handVars, faceVars, mapVars, held, twin, ui, dragVars, captureVars, rendered>>

\* PhotoBoothApp.tsx 258-265 and 279-281: a tracker's promise is fulfilled,
\* mlReady is set, React renders and the loop effect runs
OnInitFulfilledTS ==
    /\ variant = "ts"
    /\ \/ /\ handPromise = "fulfilled" /\ ~handReady
          /\ handReady' = TRUE
          /\ UNCHANGED faceReady
       \/ /\ facePromise = "fulfilled" /\ ~faceReady
          /\ faceReady' = TRUE
          /\ UNCHANGED handReady
    /\ loop' = "running"
    /\ rendered' = Render
    /\ UNCHANGED <<variant, handVars, faceVars, mapVars, held, twin, ui, dragVars, captureVars>>

\* a capture sequence that starts without marking a capture as in progress
StartSequence_NoFlag ==
    /\ Len(sequences) < MaxSequences
    /\ sequences' = Append(sequences, NewSequence)
    /\ UNCHANGED <<isCapturing, countdown>>

\* a capture sequence starts: main.js 624-633, PhotoBoothApp.tsx 81-84
StartSequence ==
    /\ Len(sequences) < MaxSequences
    /\ sequences' = Append(sequences, NewSequence)
    /\ isCapturing' = IF variant = "js" THEN TRUE ELSE isCapturing
    /\ countdown' = IF variant = "ts" THEN Some(3) ELSE countdown

\* the hand part of detect: main.js 479-484, PhotoBoothApp.tsx 285-312
TickHand ==
    IF handReady
    THEN /\ RunGetHandState
         /\ IF handCall'.raw = "throw"
            THEN /\ UNCHANGED <<win, pinch, wasPinching, lastPinchPos, dragStarts>>
                 /\ handTick' = [path |-> "threw", wasStable |-> isPinchingState,
                                 activeBefore |-> pinch.active, windowBefore |-> win,
                                 pinching |-> FALSE, screen |-> Null,
                                 requested |-> Null, effect |-> "none"]
            ELSE LET d == IF variant = "js"
                          THEN HandlePinchDragJS(handState', pinch, win, layout)
                          ELSE DetectHandTS(handState', pinch, win, rendered,
                                            wasPinching, lastPinchPos)
                 IN  /\ win' = d.win
                     /\ pinch' = d.pinch
                     /\ wasPinching' = d.wasPinching
                     /\ lastPinchPos' = d.lastPinchPos
                     /\ dragStarts' =
                           IF ~handState'.isPinching THEN 0
                           ELSE Min(dragStarts + (IF d.effect = "start" THEN 1 ELSE 0),
                                    MaxDragStarts)
                     /\ handTick' = [path |-> "ran", wasStable |-> isPinchingState,
                                     activeBefore |-> pinch.active, windowBefore |-> win,
                                     pinching |-> handState'.isPinching
                                                     /\ handState'.position # Null,
                                     screen |-> d.screen, requested |-> d.requested,
                                     effect |-> d.effect]
    ELSE /\ UNCHANGED <<handVars, win, pinch, wasPinching, lastPinchPos, dragStarts>>
         /\ handTick' = [NoHandTick EXCEPT !.path = "skipped"]

\* the face part of detect: main.js 486-491 with handleSmileTrigger 598-607,
\* PhotoBoothApp.tsx 314-331; it is not reached when the hand part threw
TickFace ==
    IF faceReady /\ handTick'.path # "threw"
    THEN /\ RunGetFaceState
         /\ LET gate == IF variant = "js"
                        THEN SmileGateJS(faceState', smileCooldown, isCapturing)
                        ELSE SmileGateTS(faceState', smileCooldown, rendered.countdown)
                starts == /\ gate
                          /\ IF variant = "js" THEN TriggerCaptureStarts(isCapturing)
                             ELSE CapturePhotoStarts(rendered.viewMode = "single",
                                                     rendered.countdown)
            IN  /\ smileCooldown' = (smileCooldown \/ gate)
                /\ cooldownTimers' = IF gate
                                     THEN Append(cooldownTimers, SMILE_COOLDOWN_MS)
                                     ELSE cooldownTimers
                /\ sinceSmile' = IF gate THEN Some(0) ELSE sinceSmile
                /\ Len(cooldownTimers') <= MaxSequences
                /\ IF starts THEN StartSequence
                   ELSE UNCHANGED <<sequences, isCapturing, countdown>>
                /\ faceTick' = [path |-> "ran", smiling |-> faceState'.isSmiling,
                                gateBefore |-> smileCooldown,
                                busyBefore |-> sequences # <<>>,
                                fresh |-> (variant = "ts" => rendered = Render),
                                triggered |-> gate,
                                gap |-> sinceSmile]
    ELSE /\ UNCHANGED <<faceVars, smileCooldown, cooldownTimers, sinceSmile, sequences,
                        isCapturing, countdown>>
         /\ faceTick' = [NoFaceTick EXCEPT
                           !.path = IF faceReady THEN "unreached" ELSE "skipped"]

\* one run of detect (main.js 478-494, PhotoBoothApp.tsx 284-334): the hand
\* part, the face part, requestAnimationFrame(detect).  Nothing catches an
\* exception, so one thrown by the hand part ends the run there and the next
\* run is never requested.
Tick ==
    /\ loop = "running"
    /\ TickHand
    /\ TickFace
    /\ loop' = IF handTick'.path = "threw" THEN "dead" ELSE "running"
    /\ UNCHANGED <<variant, mapVars, held, twin, ui, layout, viewMode, shot, handReady, faceReady, rendered>>

\* React renders again and the effects whose dependencies changed run again:
\* the loop's closure is made anew and detect is started (PhotoBoothApp.tsx
\* 279-349)
ReactCommit ==
    /\ variant = "ts"
    /\ rendered # Render
    /\ rendered' = Render
    /\ loop' = IF loop = "dead" THEN "running" ELSE loop
    /\ UNCHANGED <<variant, handVars, faceVars, mapVars, held, twin, ui, dragVars, captureVars,
                   handReady, faceReady>>

\* the capture button: onCaptureClick (main.js 612-616), onClick={capturePhoto}
\* (PhotoBoothApp.tsx 577-582).  React renders synchronously after a click.
OnCaptureClick ==
    /\ IF variant = "js"
       THEN IF ~isCapturing /\ TriggerCaptureStarts(isCapturing)
            THEN StartSequence /\ UNCHANGED <<rendered, loop>>
            ELSE UNCHANGED <<sequences, isCapturing, countdown, rendered, loop>>
       ELSE IF CapturePhotoStarts(rendered.viewMode = "single", rendered.countdown)
            THEN /\ StartSequence
                 /\ rendered' = RenderOf(win, countdown', viewMode)
                 /\ loop' = IF loop = "dead" THEN "running" ELSE loop
            ELSE UNCHANGED <<sequences, isCapturing, countdown, rendered, loop>>
    /\ UNCHANGED <<variant, handVars, faceVars, mapVars, held, twin, ui, dragVars, handReady, faceReady,
                   viewMode, shot, smileCooldown, cooldownTimers, sinceSmile, faceTick>>

\* the space bar: onKeyDown (main.js 808-813); the React build has no key handler
OnKeyDownSpace ==
    /\ variant = "js"
    /\ IF ~isCapturing /\ TriggerCaptureStarts(isCapturing)
       THEN StartSequence
       ELSE UNCHANGED <<sequences, isCapturing, countdown>>
    /\ UNCHANGED <<variant, handVars, faceVars, mapVars, held, twin, ui, dragVars, loopVars,
                   viewMode, shot, smileCooldown, cooldownTimers, sinceSmile, faceTick>>

\* the effects button (main.js 309-319, PhotoBoothApp.tsx 591-594)
ToggleView ==
    /\ IF variant = "js"
       THEN /\ viewMode' = IF viewMode = "grid" THEN "single" ELSE "grid"
            /\ UNCHANGED <<rendered, loop>>
       ELSE /\ viewMode' = IF rendered.viewMode = "grid" THEN "single" ELSE "grid"
            /\ rendered' = RenderOf(win, countdown, viewMode')
            /\ loop' = IF loop = "dead" THEN "running" ELSE loop
    /\ UNCHANGED <<variant, handVars, faceVars, mapVars, held, twin, ui, dragVars, handReady, faceReady,
                   smileCooldown, cooldownTimers, isCapturing, countdown, sequences,
                   sinceSmile, faceTick, shot>>

\* a sleep of a capture sequence is over: the next number is shown, or after
\* the third sleep the picture is taken and the sequence ends (main.js 629-657,
\* PhotoBoothApp.tsx 84-121).  In main.js the canvas looked up for the current
\* filter (640-647) is there or not: the grid holds the canvases of one page.
CaptureStep ==
    /\ \E k \in 1..Len(sequences) :
          /\ sequences[k].left = 0
          /\ IF sequences[k].step > 1
             THEN /\ sequences' = [sequences EXCEPT
                                     ![k] = [@ EXCEPT !.left = COUNTDOWN_STEP_MS,
                                                      !.step = @ - 1]]
                  /\ countdown' = IF variant = "ts" THEN Some(sequences[k].step - 1)
                                  ELSE countdown
                  /\ UNCHANGED isCapturing
                  /\ UNCHANGED shot
             ELSE /\ sequences' = Remove(sequences, k)
                  /\ countdown' = IF variant = "ts" THEN Null ELSE countdown
                  /\ isCapturing' = IF variant = "js" THEN FALSE ELSE isCapturing
                  /\ IF variant = "js"
                     THEN \E canvas \in BOOLEAN :
                             shot' = IF canvas THEN "saved" ELSE "nocanvas"
                     ELSE UNCHANGED shot
    /\ UNCHANGED <<variant, handVars, faceVars, mapVars, held, twin, ui, dragVars, loopVars,
                   viewMode, smileCooldown, cooldownTimers, sinceSmile, faceTick>>

\* the cooldown timer fires (main.js 603-605, PhotoBoothApp.tsx 326-328)
CooldownExpire ==
    /\ \E k \in 1..Len(cooldownTimers) :
          /\ cooldownTimers[k] = 0
          /\ cooldownTimers' = Remove(cooldownTimers, k)
    /\ smileCooldown' = FALSE
    /\ UNCHANGED <<variant, handVars, faceVars, mapVars, held, twin, ui, dragVars, loopVars,
                   viewMode, shot, isCapturing, countdown, sequences, sinceSmile,
                   faceTick>>

\* Time passes, one countdown step at a time.  A timer that is due fires before
\* more time passes, and React has rendered by then.
Advance ==
    /\ sequences # <<>> \/ cooldownTimers # <<>>
    /\ \A k \in 1..Len(sequences) : sequences[k].left > 0
    /\ \A k \in 1..Len(cooldownTimers) : cooldownTimers[k] > 0
    /\ variant = "ts" => rendered = Render
    /\ sequences' = [k \in 1..Len(sequences) |->
                        [sequences[k] EXCEPT !.left = Elapse(@, COUNTDOWN_STEP_MS)]]
    /\ cooldownTimers' = [k \in 1..Len(cooldownTimers) |->
                             Elapse(cooldownTimers[k], COUNTDOWN_STEP_MS)]
    /\ sinceSmile' = IF sinceSmile = Null THEN Null
                     ELSE Some(Min(sinceSmile[1] + COUNTDOWN_STEP_MS, SMILE_COOLDOWN_MS))
    /\ UNCHANGED <<variant, handVars, faceVars, mapVars, held, twin, ui, dragVars, loopVars,
                   viewMode, shot, smileCooldown, isCapturing, countdown, faceTick>>

-----------------------------------------------------------------------------
\* no result has arrived and no call has been made
NoHeld ==
    [hand |-> [newest |-> Null, dropped |-> Null, reads |-> 0],
     face |-> [newest |-> Null, dropped |-> Null, reads |-> 0]]

\* the other build's module state before its first call
NoTwin ==
    [hand |-> [stable |-> FALSE, count |-> 0, ret |-> NoHand],
     face |-> [smiling |-> FALSE, count |-> 0, ret |-> NoFace]]

Init ==
    /\ variant \in {"ts", "js"}
    /\ ui = NoUi
    /\ HandInit
    /\ FaceInit
    /\ AppInit
    /\ MapIdle
    /\ held = NoHeld
    /\ twin = NoTwin

\* the JavaScript build
InitJS ==
    /\ variant = "js"
    /\ ui = NoUi
    /\ HandInit
    /\ FaceInit
    /\ AppInit
    /\ MapIdle
    /\ held = NoHeld
    /\ twin = NoTwin

\* the mapper alone: a rectangle, a position and a video element are given
InitMap ==
    /\ variant \in {"ts", "js"}
    /\ ui = NoUi
    /\ HandInit
    /\ FaceInit
    /\ AppInit
    /\ mapIn \in {m \in MapInputs :
                    /\ m.position.x <= VideoWidth(m.videoEl)
                    /\ m.position.y <= VideoHeight(m.videoEl)
                    /\ variant = "ts" => m.rect.height = 350}
    /\ mapOut = Null
    /\ held = NoHeld
    /\ twin = NoTwin

NextMap == ApplyScreenPos

\* the application while the face model does not get loaded
NextDrag ==
    \/ OnVideoReady
    \/ HandModelLoaded
    \/ OnInitSettledJS
    \/ OnInitFulfilledTS
    \/ HandDetectApp
    \/ Tick
    \/ ReactCommit

\* the application while the hand model does not get loaded
NextCapture ==
    \/ OnVideoReady
    \/ FaceModelLoaded
    \/ OnInitSettledJS
    \/ OnInitFulfilledTS
    \/ FaceDetectApp
    \/ Tick
    \/ OnCaptureClick
    \/ OnKeyDownSpace
    \/ ToggleView
    \/ CaptureStep
    \/ CooldownExpire
    \/ Advance
    \/ ReactCommit

NextHand ==
    \/ InitHandpose
    \/ HandModelLoaded
    \/ HandDetect
    \/ GetHandState
    \/ StopHandpose

NextFace ==
    \/ InitFacemesh
    \/ FaceModelLoaded
    \/ FaceDetect
    \/ GetFaceState
    \/ StopFacemesh

\* An adapter observed alone, with the history of its held snapshot: the newest
\* result a detector callback delivered, the delivered result it replaced
\* before any getState call had read it, and the number of getState calls made
\* since the newest result arrived.
\* the detectStart callback of the hand adapter: predictions = results || []
HandArrive ==
    /\ handDetecting
    /\ \E results \in AppHandArgs :
          /\ handPredictions' = OrEmpty(results)
          /\ held' = [held EXCEPT !.hand =
                        [newest |-> Some(results),
                         dropped |-> IF held.hand.reads = 0 THEN held.hand.newest
                                     ELSE Null,
                         reads |-> 0]]
    /\ UNCHANGED <<variant, faceVars, appVars, mapVars, twin, ui, handpose, handLoading,
                   handDetecting, handIsReady, isPinchingState, consecutivePinchFrames,
                   handState, handCall, pinchRun, handPromise, handError>>

\* a call that classifies a result only the first time it reads it
HandRead_CountsResults ==
    /\ IF held.hand.reads = 0 THEN RunGetHandState ELSE UNCHANGED handVars
    /\ held' = [held EXCEPT !.hand.reads = Min(@ + 1, MaxPinchFrames)]
    /\ UNCHANGED <<variant, faceVars, appVars, mapVars, twin, ui>>

\* a tick's getHandState call
HandRead ==
    /\ RunGetHandState
    /\ held' = [held EXCEPT !.hand.reads = Min(@ + 1, MaxPinchFrames)]
    /\ UNCHANGED <<variant, faceVars, appVars, mapVars, twin, ui>>

\* the detectStart callback of the face adapter
FaceArrive ==
    /\ faceDetecting
    /\ \E results \in AppFaceArgs :
          /\ facePredictions' = OrEmpty(results)
          /\ held' = [held EXCEPT !.face =
                        [newest |-> Some(results),
                         dropped |-> IF held.face.reads = 0 THEN held.face.newest
                                     ELSE Null,
                         reads |-> 0]]
    /\ UNCHANGED <<variant, handVars, appVars, mapVars, twin, ui, facemesh, faceLoading,
                   faceDetecting, faceIsReady, isSmiling, consecutiveSmileFrames,
                   faceState, faceCall, smileRun, noSmileRun, facePromise, faceError>>

\* a tick's getFaceState call
FaceRead ==
    /\ RunGetFaceState
    /\ held' = [held EXCEPT !.face.reads = Min(@ + 1, MaxSmileFrames)]
    /\ UNCHANGED <<variant, handVars, appVars, mapVars, twin, ui>>

\* the hand tracker alone, and the face tracker alone
SpecHand == Init /\ [][NextHand]_vars
SpecFace == Init /\ [][NextFace]_vars
SpecMap == InitMap /\ [][NextMap]_vars
SpecDrag == Init /\ [][NextDrag]_vars
SpecCapture == Init /\ [][NextCapture]_vars

\* one adapter started, fed by its detector and read by ticks, the other one
\* left alone
SpecReads ==
    /\ Init
    /\ [][ \/ (facePromise = "none" /\ InitHandpose)
           \/ (handPromise = "none" /\ InitFacemesh)
           \/ HandModelLoaded
           \/ FaceModelLoaded
           \/ HandArrive
           \/ HandRead
           \/ FaceArrive
           \/ FaceRead ]_vars

\* the application with both trackers: a pinch held on the upper edge of the
\* frame comes and goes, at times as a result without keypoints, and a smiling
\* face comes and goes
SpecBoth ==
    /\ Init
    /\ [][ \/ OnVideoReady
           \/ HandModelLoaded
           \/ FaceModelLoaded
           \/ OnInitSettledJS
           \/ OnInitFulfilledTS
           \/ HandDetectFrom({Defined(Null), Defined(<<MakeHand(300, 0, 320, 0)>>),
                              Defined(<<[handedness |-> "Right"]>>)})
           \/ FaceDetectApp
           \/ Tick
           \/ CaptureStep
           \/ CooldownExpire
           \/ Advance ]_vars

\* main.js with the face tracker, where the browser fires every timer that is
\* due (setTimeout of sleep and of the cooldown) and time goes on
SpecCaptureJS ==
    /\ InitJS
    /\ [][ \/ OnVideoReady
           \/ FaceModelLoaded
           \/ OnInitSettledJS
           \/ FaceDetectApp
           \/ Tick
           \/ OnCaptureClick
           \/ OnKeyDownSpace
           \/ ToggleView
           \/ CaptureStep
           \/ CooldownExpire
           \/ Advance ]_vars
    /\ WF_vars(CaptureStep) /\ WF_vars(CooldownExpire) /\ WF_vars(Advance)

-----------------------------------------------------------------------------
\* The page around the camera: the window moved by the mouse, by a pinch and
\* by a resize of the viewport, and the paging of the effects grid

\* main.js 890-900: the ids of FILTERS, in order
FILTERS ==
    <<"rainbow", "vibrant", "coldblue", "highcontrast", "normal", "vintage",
      "xray", "neon", "bw">>

\* main.js 160-165: allFilters.slice(start, end)
GetFiltersForPage(page) ==
    LET start == page * FILTERS_PER_PAGE
        end == start + FILTERS_PER_PAGE
    IN  SubSeq(FILTERS, start + 1, Min(end, Len(FILTERS)))

\* the page loaded into a viewport of some size; the window is centred in it
InitUi ==
    /\ variant \in {"ts", "js"}
    /\ \E v \in {<<840, 300>>, <<600, 60>>, <<80, 400>>} :
          ui = [NoUi EXCEPT !.innerWidth = v[1], !.innerHeight = v[2]]
    /\ HandInit
    /\ FaceInit
    /\ AppInit
    /\ MapIdle
    /\ held = NoHeld
    /\ twin = NoTwin

\* the browser's viewport takes another size; a resize event is due
ViewportResized ==
    /\ \E v \in {<<840, 300>>, <<600, 60>>, <<80, 400>>} :
          /\ <<ui.innerWidth, ui.innerHeight>> # v
          /\ ui' = [ui EXCEPT !.innerWidth = v[1], !.innerHeight = v[2],
                              !.resized = TRUE, !.last = "viewport"]
    /\ UNCHANGED <<variant, handVars, faceVars, appVars, mapVars, held, twin>>

\* main.js 831-844: onWindowResize
OnWindowResize ==
    /\ variant = "js"
    /\ ui.resized
    /\ win' = Point(Max(0, Min(win.x, PxX(InnerWidth - layout.offsetWidth))),
                    Max(PxY(24), Min(win.y, PxY(InnerHeight - 50))))
    /\ ui' = [ui EXCEPT !.resized = FALSE, !.last = "resize"]
    /\ UNCHANGED <<variant, handVars, faceVars, mapVars, held, twin, captureVars,
                   loopVars, layout, pinch, wasPinching, lastPinchPos, dragStarts,
                   handTick>>

\* main.js 764-774: onTitlebarMouseDown on the title bar itself, not on one of
\* its buttons
OnTitlebarMouseDown ==
    /\ variant = "js"
    /\ \E a \in {120, 700}, b \in {30, 50} :
          LET e == Point(PxX(a), PxY(b))
          IN  /\ InsideTitlebarJS(e, ElementRect(win, layout.titlebar))
              /\ ui' = [ui EXCEPT !.isDragging = TRUE,
                                  !.dragOffset = Point(e.x - win.x, e.y - win.y),
                                  !.last = "down"]
    /\ UNCHANGED <<variant, handVars, faceVars, appVars, mapVars, held, twin>>

\* main.js 779-795: onMouseMove; it returns at once when no drag is under way
OnMouseMove ==
    /\ variant = "js"
    /\ ui.isDragging
    /\ \E a \in {120, 700}, b \in {30, 50} :
          LET e == Point(PxX(a), PxY(b))
          IN  win' = Point(Max(0, Min(e.x - ui.dragOffset.x,
                                      PxX(InnerWidth - layout.offsetWidth))),
                           Max(PxY(24), Min(e.y - ui.dragOffset.y,
                                            PxY(InnerHeight - 50))))
    /\ ui' = [ui EXCEPT !.last = "mouse"]
    /\ UNCHANGED <<variant, handVars, faceVars, mapVars, held, twin, captureVars,
                   loopVars, layout, pinch, wasPinching, lastPinchPos, dragStarts,
                   handTick>>

\* main.js 800-805: onMouseUp
OnMouseUp ==
    /\ variant = "js"
    /\ ui' = [ui EXCEPT !.isDragging = FALSE, !.last = "up"]
    /\ UNCHANGED <<variant, handVars, faceVars, appVars, mapVars, held, twin>>

\* main.js 540-593: handlePinchDrag called with a hand state
OnPinchDrag ==
    /\ variant = "js"
    /\ \E state \in {NoHand} \cup
                    {[isPinching |-> TRUE, position |-> Some(Point(vx, vy)),
                      pinchDistanceSq |-> Some(400)] :
                        vx \in {100, 600}, vy \in {240}} :
          LET d == HandlePinchDragJS(state, pinch, win, layout)
          IN  /\ win' = d.win
              /\ pinch' = d.pinch
              /\ ui' = [ui EXCEPT !.last = IF d.effect = "move" THEN "pinch"
                                           ELSE "hand"]
    /\ UNCHANGED <<variant, handVars, faceVars, mapVars, held, twin, captureVars,
                   loopVars, layout, wasPinching, lastPinchPos, dragStarts,
                   handTick>>

\* Desktop.tsx 61-67: handleWindowMove called with a position
OnWindowMove ==
    /\ variant = "ts"
    /\ \E a \in {-40, 120, 900}, b \in {-10, 30, 500} :
          win' = HandleWindowMove(PxX(a), PxY(b))
    /\ ui' = [ui EXCEPT !.last = "move"]
    /\ UNCHANGED <<variant, handVars, faceVars, mapVars, held, twin, captureVars,
                   loopVars, layout, pinch, wasPinching, lastPinchPos, dragStarts,
                   handTick>>

\* main.js 238-257: setPage, from a page dot (main.js 366-369) or a swipe
\* (main.js 274-292)
SetPage ==
    /\ variant = "js"
    /\ \E page \in -1 .. TOTAL_PAGES :
          IF page < 0 \/ page >= TOTAL_PAGES \/ page = ui.currentPage
          THEN ui' = [ui EXCEPT !.last = "setPageReturned", !.arg = page]
          ELSE LET filtersOnPage == GetFiltersForPage(page)
                   isOnPage == \E i \in DOMAIN filtersOnPage :
                                   filtersOnPage[i] = ui.currentFilter
                   centerIndex == Len(filtersOnPage) \div 2
               IN  ui' = [ui EXCEPT
                            !.currentPage = page,
                            !.currentFilter =
                                IF ~isOnPage /\ Len(filtersOnPage) > 0
                                THEN filtersOnPage[centerIndex + 1]
                                ELSE @,
                            !.last = "setPage", !.arg = page]
    /\ UNCHANGED <<variant, handVars, faceVars, appVars, mapVars, held, twin>>

\* main.js 297-305: selectFilter, from a click on a cell of the grid built
\* for the current page (main.js 178-204)
SelectFilter ==
    /\ variant = "js"
    /\ \E i \in DOMAIN GetFiltersForPage(ui.currentPage) :
          ui' = [ui EXCEPT !.currentFilter = GetFiltersForPage(ui.currentPage)[i],
                           !.last = "select"]
    /\ UNCHANGED <<variant, handVars, faceVars, appVars, mapVars, held, twin>>

\* the window moved about, or the effects paged, from the page as loaded
SpecUi ==
    /\ InitUi
    /\ [][ \/ (ui.last \notin {"setPage", "setPageReturned", "select"} /\ ViewportResized)
           \/ (ui.last \notin {"setPage", "setPageReturned", "select"} /\ OnWindowResize)
           \/ (ui.last \notin {"setPage", "setPageReturned", "select"} /\ OnTitlebarMouseDown)
           \/ (ui.last \notin {"setPage", "setPageReturned", "select"} /\ OnMouseMove)
           \/ (ui.last \notin {"setPage", "setPageReturned", "select"} /\ OnMouseUp)
           \/ (ui.last \notin {"setPage", "setPageReturned", "select"} /\ OnPinchDrag)
           \/ (ui.last \notin {"setPage", "setPageReturned", "select"} /\ OnWindowMove)
           \/ (ui.last \in {"none", "setPage", "setPageReturned", "select"} /\ SetPage)
           \/ (ui.last \in {"none", "setPage", "setPageReturned", "select"} /\ SelectFilter) ]_vars

\* one getHandState call of this build, and the call of the other build's
\* getHandState on the same snapshot from its own module state; the JavaScript
\* tracker is ready (isReady is set with detectStart)
HandReadTwin ==
    LET other == IF variant = "ts"
                 THEN GetHandStateJS(TRUE, handPredictions, twin.hand.stable,
                                     twin.hand.count)
                 ELSE GetHandStateTS(handPredictions, twin.hand.stable,
                                     twin.hand.count)
    IN  /\ handDetecting
        /\ RunGetHandState
        /\ other.count <= MaxPinchFrames
        /\ twin' = [twin EXCEPT !.hand =
                      [stable |-> other.stable, count |-> other.count,
                       ret |-> IF other.raw = "throw" THEN twin.hand.ret
                               ELSE other.ret]]
        /\ UNCHANGED <<variant, faceVars, appVars, mapVars, held, ui>>

\* the same for getFaceState
FaceReadTwin ==
    LET other == IF variant = "ts"
                 THEN GetFaceStateJS(TRUE, facePredictions, twin.face.smiling,
                                     twin.face.count)
                 ELSE GetFaceStateTS(facePredictions, twin.face.smiling,
                                     twin.face.count)
    IN  /\ faceDetecting
        /\ RunGetFaceState
        /\ other.count <= MaxSmileFrames
        /\ twin' = [twin EXCEPT !.face =
                      [smiling |-> other.smiling, count |-> other.count,
                       ret |-> other.ret]]
        /\ UNCHANGED <<variant, handVars, appVars, mapVars, held, ui>>

\* the two builds fed the same snapshots, one tracker at a time
SpecTwin ==
    /\ Init
    /\ [][ \/ (facePromise = "none" /\ InitHandpose)
           \/ HandModelLoaded
           \/ HandDetect
           \/ HandReadTwin
           \/ (handPromise = "none" /\ InitFacemesh)
           \/ FaceModelLoaded
           \/ FaceDetect
           \/ FaceReadTwin ]_vars

\* either tracker alone, the other one never touched
SpecTrackers ==
    /\ Init
    /\ [][ \/ (facePromise = "none" /\ faceCall.raw = "none" /\ InitHandpose)
           \/ (facePromise = "none" /\ faceCall.raw = "none" /\ GetHandState)
           \/ HandModelLoaded
           \/ HandDetect
           \/ StopHandpose
           \/ (handPromise = "none" /\ handCall.raw = "none" /\ InitFacemesh)
           \/ (handPromise = "none" /\ handCall.raw = "none" /\ GetFaceState)
           \/ FaceModelLoaded
           \/ FaceDetect
           \/ StopFacemesh ]_vars

\* the hand tracker alone, where the library does deliver the model-loaded
\* callback of every initHandpose call that returned a model
SpecHandFair == SpecHand /\ WF_vars(HandModelLoaded)

-----------------------------------------------------------------------------
\* What the last getHandState call read, taken from the snapshot itself.

CallThumb == IF Len(handCall.read) = 0 THEN Null
             ELSE Find(handCall.read[1].keypoints, "thumb_tip")
CallIndex == IF Len(handCall.read) = 0 THEN Null
             ELSE Find(handCall.read[1].keypoints, "index_finger_tip")
HandCalled == handCall.raw # "none"
\* both tips were in the snapshot the call read
CallTips == HandCalled /\ CallThumb # Null /\ CallIndex # Null
\* the call read no hand, or a hand without one of the tips (js: or was not ready)
CallAbsent ==
    /\ HandCalled
    /\ \/ CallThumb = Null
       \/ CallIndex = Null
       \/ (variant = "js" /\ ~handCall.ready)
\* the square of the distance d between the tips the call read
CallDistSq == DistanceSq(CallThumb[1], CallIndex[1])

\* C1: a getHandState call that reads both tips while the stable pinch state is
\* false classifies the frame positive if and only if d < 40; a d in [40,50) is
\* then negative, also after 1 or 2 positive frames of a build-up.
C1_RawThresholdWhenNotStable ==
    (CallTips /\ ~handCall.stable) =>
        /\ (handCall.raw = "pos") <=> (CallDistSq < 40 * 40)
        /\ (CallDistSq >= 40 * 40) => handCall.raw = "neg" /\ consecutivePinchFrames = 0

C1_Witness ==
    /\ CallTips /\ ~handCall.stable
    /\ handCall.count = 2
    /\ CallDistSq >= 40 * 40 /\ CallDistSq < 50 * 50
    /\ handCall.raw = "neg"

\* C2: a getHandState call made while the stable pinch state is true returns
\* isPinching true if and only if d < 50: a d in [40,50) keeps the pinch and
\* the first frame with d >= 50 releases it.
C2_Hysteresis ==
    (CallTips /\ handCall.stable) =>
        /\ handState.isPinching <=> (CallDistSq < 50 * 50)
        /\ isPinchingState = handState.isPinching

C2_Witness ==
    /\ CallTips /\ handCall.stable
    /\ CallDistSq >= 40 * 40 /\ CallDistSq < 50 * 50
    /\ handState.isPinching

\* C3: isPinching is returned true exactly from the 3rd consecutive positive
\* frame on, never earlier; the counter equals the length of the current run of
\* positive frames, so a negative frame after 1 or 2 positive ones puts it back
\* to 0 and 3 fresh positive frames are needed.
C3_ThreeConsecutiveFrames ==
    /\ handState.isPinching <=> pinchRun >= 3
    /\ consecutivePinchFrames = pinchRun
    /\ (handCall.raw = "neg") => consecutivePinchFrames = 0 /\ ~handState.isPinching

C3_Witness ==
    /\ ~handCall.stable /\ handCall.count = 2
    /\ pinchRun = 3
    /\ handState.isPinching

\* C4: a getHandState call that reads no hand, or a hand without thumb_tip or
\* index_finger_tip, returns {isPinching: false, position: null} and leaves the
\* counter at 0 and the stable flag false, whatever they were; fewer than 3
\* positive frames after it never give isPinching.
C4_ImmediateReset ==
    /\ CallAbsent =>
          /\ handState.isPinching = FALSE /\ handState.position = Null
          /\ consecutivePinchFrames = 0 /\ isPinchingState = FALSE
    /\ HandCalled => (CallAbsent <=> handState.position = Null)
    /\ pinchRun < 3 => ~handState.isPinching

C4_Witness ==
    /\ CallAbsent
    /\ Len(handCall.read) > 0
    /\ handCall.stable /\ handCall.count >= 3
    /\ consecutivePinchFrames = 0 /\ ~isPinchingState

-----------------------------------------------------------------------------
\* What the last getFaceState call read, taken from the snapshot itself.

FaceCalled == faceCall.raw # "none"
\* the call read no face (js: or the tracker was not ready)
CallNoFace ==
    /\ FaceCalled
    /\ (Len(faceCall.read) = 0 \/ (variant = "js" /\ ~faceCall.ready))
CallKeypoints == faceCall.read[1].keypoints
\* the call read a face with fewer than 400 keypoints or without one of the six
CallIncomplete ==
    /\ FaceCalled /\ ~CallNoFace
    /\ \/ CallKeypoints.length < 400
       \/ \E i \in LandmarkIndices : CallKeypoints.at[i] = Null
CallComplete == FaceCalled /\ ~CallNoFace /\ ~CallIncomplete
CallFaceHeight  == Abs(CallKeypoints.at[152][1].y - CallKeypoints.at[10][1].y)
CallMouthHeight == Abs(CallKeypoints.at[14][1].y - CallKeypoints.at[13][1].y)
CallMouthWidth  == Abs(CallKeypoints.at[291][1].x - CallKeypoints.at[61][1].x)
\* mouthHeight / faceHeight > 0.08  and  mouthWidth / (0.8 * faceHeight) > 0.35
CallOpenEnough == CallFaceHeight > 0 /\ 100 * CallMouthHeight > 8 * CallFaceHeight
CallWideEnough == CallFaceHeight > 0 /\ 100 * CallMouthWidth > 28 * CallFaceHeight

\* C5: isSmiling goes from false to true only in a call that completes 5
\* positive classifications in a row.
C5_FlipOnlyAfterFiveInARow ==
    (FaceCalled /\ ~faceCall.smiling /\ isSmiling) => smileRun >= 5

\* C6: a negative classification of a complete face lowers the smile counter by
\* exactly 1, not below 0, and clears isSmiling only if the counter is then 0;
\* one negative frame right after the smile became stable leaves it true.
C6_SoftDecay ==
    (CallComplete /\ ~(CallOpenEnough /\ CallWideEnough)) =>
        /\ consecutiveSmileFrames = Max(0, faceCall.count - 1)
        /\ isSmiling <=> (faceCall.smiling /\ consecutiveSmileFrames # 0)
        /\ faceState.isSmiling = isSmiling
        /\ (faceCall.smiling /\ faceCall.count >= 2) => isSmiling

C6_Witness ==
    /\ CallComplete /\ ~(CallOpenEnough /\ CallWideEnough)
    /\ faceCall.smiling /\ faceCall.count = 5
    /\ consecutiveSmileFrames = 4 /\ isSmiling /\ faceState.isSmiling

\* C7: after 5 negative classifications in a row isSmiling is false.
C7_FiveNegativesClear ==
    noSmileRun >= 5 => ~isSmiling

\* C8: a call that reads a face with fewer than 400 keypoints, or without one
\* of the six landmarks, returns {isSmiling: false, mouthOpenness: 0} and
\* leaves the counter at 0 and isSmiling false.
C8_IncompleteFaceResets ==
    CallIncomplete =>
        /\ faceState.isSmiling = FALSE /\ faceState.mouthOpenness = Zero
        /\ consecutiveSmileFrames = 0 /\ isSmiling = FALSE

\* C9: a call that reads no face (js: or finds the tracker not ready) returns
\* {isSmiling: false, mouthOpenness: 0} and leaves the counter at 0 and
\* isSmiling false, whatever the counter was.
C9_NoFaceHardReset ==
    CallNoFace =>
        /\ faceState.isSmiling = FALSE /\ faceState.mouthOpenness = Zero
        /\ consecutiveSmileFrames = 0 /\ isSmiling = FALSE

C9_Witness ==
    /\ CallNoFace
    /\ faceCall.smiling /\ faceCall.count >= 5
    /\ consecutiveSmileFrames = 0 /\ ~isSmiling

\* C10: a complete face is classified positive (the counter goes up by 1) if
\* and only if both ratios pass their thresholds strictly; the returned ratios
\* are mouthHeight / faceHeight and mouthWidth / (0.8 * faceHeight), and with
\* faceHeight 0 both are 0 and the frame is negative.
C10_SmileClassification ==
    CallComplete =>
        /\ (faceCall.raw = "pos") <=> (CallOpenEnough /\ CallWideEnough)
        /\ (consecutiveSmileFrames = faceCall.count + 1)
              <=> (CallOpenEnough /\ CallWideEnough)
        /\ faceState.mouthWidth # Null
        /\ faceState.mouthOpenness.den > 0 /\ faceState.mouthWidth[1].den > 0
        /\ IF CallFaceHeight = 0
           THEN /\ faceState.mouthOpenness.num = 0
                /\ faceState.mouthWidth[1].num = 0
                /\ faceCall.raw = "neg"
           ELSE /\ faceState.mouthOpenness.num * CallFaceHeight
                      = CallMouthHeight * faceState.mouthOpenness.den
                /\ faceState.mouthWidth[1].num * 8 * CallFaceHeight
                      = 10 * CallMouthWidth * faceState.mouthWidth[1].den

C10_Witness ==
    /\ CallComplete
    /\ CallOpenEnough /\ ~CallWideEnough
    /\ 100 * CallMouthWidth = 28 * CallFaceHeight
    /\ faceCall.raw = "neg"

-----------------------------------------------------------------------------
\* The mapper's input and result in whole pixels: a result of sx over
\* videoWidth is the pixel coordinate p exactly when sx = p * videoWidth.
MapVW == VideoWidth(mapIn.videoEl)
MapVH == VideoHeight(mapIn.videoEl)
MapDone == mapOut # Null

-----------------------------------------------------------------------------
\* C19: stopHandpose is safe at any time, also between initHandpose and the
\* model-loaded callback: no callback of the hand model raises an error
\* afterwards, and every getHandState call made while the tracker is stopped
\* returns the neutral state {isPinching: false, position: null}.
C19_StopSafeAtAnyTime ==
    /\ ~handError
    /\ (HandCalled /\ handCall.model = "null") => handState = NoHand

-----------------------------------------------------------------------------
\* The last run of the hand part of detect.

HandTicked == handTick.path = "ran"
\* the title bar's rectangle as the tick saw it
TickTitlebarJS == ElementRect(handTick.windowBefore, layout.titlebar)

\* C11: in main.js a drag session starts (App.pinch.active false -> true) only
\* on the tick where the stabilized pinch flips from false to true with the
\* mapped position inside the title-bar rectangle; a pinch that has become
\* stable outside the title bar and is moved over it starts no drag.
C11_DragStartsOnPinchEdge ==
    (variant = "js" /\ handTick.effect = "start") =>
        /\ ~handTick.wasStable
        /\ InsideTitlebarJS(handTick.screen[1], TickTitlebarJS)

\* C12: on every drag-move tick the requested window position is
\* anchorWindowPos + (currentMappedPos - anchorScreenPos) before clamping, and
\* startWindowPos and startPinchPos stay as they are from drag-start to drag-end.
C12_AnchorRelativeDrag ==
    /\ [](handTick.effect = "move" =>
            /\ handTick.requested[1].x
                  = pinch.startWindowPos.x + (handTick.screen[1].x - pinch.startPinchPos.x)
            /\ handTick.requested[1].y
                  = pinch.startWindowPos.y + (handTick.screen[1].y - pinch.startPinchPos.y))
    /\ [][(pinch.active /\ pinch'.active) =>
            /\ pinch'.startWindowPos = pinch.startWindowPos
            /\ pinch'.startPinchPos = pinch.startPinchPos]_vars

\* a drag-move tick whose mapped position has left the anchor
C12_Witness ==
    /\ handTick.effect = "move"
    /\ handTick.screen[1].x # pinch.startPinchPos.x
    /\ handTick.screen[1].y # pinch.startPinchPos.y
    /\ pinch.startWindowPos # Point(0, 0)

\* C13: a tick that reads isPinching false (or no position) ends an active drag
\* session in that tick wherever the hand is; after every completed hand tick
\* an active session implies that the state read in the tick was pinching.
C13_ReleaseAnywhere ==
    HandTicked =>
        /\ pinch.active => handTick.pinching
        /\ (handTick.activeBefore /\ ~handTick.pinching) =>
              handTick.effect = "end" /\ ~pinch.active

\* a session ended by a tick that read no hand at all
C13_Witness ==
    /\ HandTicked
    /\ handTick.activeBefore /\ ~handTick.pinching
    /\ handCall.read = <<>>
    /\ handTick.effect = "end" /\ ~pinch.active

\* C14: the snapshot thumb_tip = (100,100), index_finger_tip = (120,100) read on
\* 3 consecutive ticks with the mapped position inside the title bar takes the
\* session from idle to dragging with exactly one drag-start; each maximal run
\* of stable-pinch ticks has at most one drag-start.
C14_OneDragStartPerPinch ==
    /\ dragStarts <= 1
    /\ ( /\ HandTicked /\ pinchRun = 3
         /\ handCall.read = <<MakeHand(100, 100, 120, 100)>>
         /\ variant = "js"
         /\ InsideTitlebarJS(handTick.screen[1], TickTitlebarJS) )
          => /\ handTick.effect = "start"
             /\ dragStarts = 1
             /\ pinch.active /\ ~handTick.activeBefore

C14_Witness ==
    /\ HandTicked /\ pinchRun = 3
    /\ handCall.read = <<MakeHand(100, 100, 120, 100)>>
    /\ handTick.effect = "start"
    /\ dragStarts = 1
    /\ pinch.active

\* C20: an exception thrown inside one tick's extractor (a detection result
\* without its keypoints field) is caught at the tick boundary, puts only that
\* signal back to idle and leaves the loop scheduled: the face part of the tick
\* is still reached and the loop goes on.
C20_TickFaultContained ==
    handTick.path = "threw" =>
        /\ loop = "running"
        /\ faceTick.path # "unreached"
        /\ handState = NoHand

-----------------------------------------------------------------------------
\* The last run of the face part of detect.

FaceTicked == faceTick.path = "ran"

\* C15: after a smile-triggered capture at time t the smile path triggers no
\* further capture before t + 3000 ms, however long the smile stays stable;
\* once the 3000 ms are over and no capture is in progress, a stable smile
\* triggers again.
C15_CooldownGate ==
    /\ (faceTick.triggered /\ faceTick.gap # Null) => faceTick.gap[1] >= SMILE_COOLDOWN_MS
    /\ smileCooldown =>
          /\ sinceSmile # Null
          /\ sinceSmile[1] < SMILE_COOLDOWN_MS \/ cooldownTimers = <<0>>
    /\ ( /\ FaceTicked /\ faceTick.smiling /\ faceTick.fresh
         /\ ~faceTick.gateBefore /\ ~faceTick.busyBefore ) => faceTick.triggered

\* a second smile trigger, 3000 ms after a first one
C15_Witness ==
    /\ faceTick.triggered
    /\ faceTick.gap = Some(SMILE_COOLDOWN_MS)
    /\ sinceSmile = Some(0)
    /\ smileCooldown

\* C16: the smile path calls the capture trigger only on a tick where the
\* stabilized smile is true, the cooldown gate is open and no capture or
\* countdown is in progress, whoever started it.
C16_TriggerOnlyWhenIdle ==
    faceTick.triggered =>
        /\ faceTick.smiling
        /\ ~faceTick.gateBefore
        /\ ~faceTick.busyBefore

\* C17: the cooldown gate is set on every capture that starts, whether a smile,
\* the capture button or the space bar started it, and only its 3000 ms timer
\* clears it.
C17_GateSetByEveryCapture ==
    /\ [][Len(sequences') > Len(sequences) => smileCooldown']_vars
    /\ [][(smileCooldown /\ ~smileCooldown') =>
            /\ Len(cooldownTimers') < Len(cooldownTimers)
            /\ \E k \in 1..Len(cooldownTimers) : cooldownTimers[k] = 0]_vars

\* C21: the promise returned by initHandpose always settles: once it is
\* pending it is later fulfilled (the model-loaded callback started detection)
\* or rejected (the model could not initialize); it never stays pending.
C21_InitSettles ==
    (handPromise = "pending") ~> (handPromise \in {"fulfilled", "rejected"})

\* the newest result each detector delivered, as an array
NewestHand == IF held.hand.newest = Null THEN <<>> ELSE held.hand.newest[1].value
NewestFace == IF held.face.newest = Null THEN <<>> ELSE held.face.newest[1].value

\* C22: the adapter keeps no queue.  A getState call reads the newest result
\* the detector delivered, whatever results were delivered and replaced before
\* it since the previous call; it leaves the held snapshot as it is, and the
\* stable flag and the counter after the call are those the newest result
\* alone gives from their values before the call.
C22_NewestOnly ==
    /\ []( /\ held.hand.reads > 0 => handCall.read = NewestHand
           /\ held.face.reads > 0 => faceCall.read = NewestFace )
    /\ [][ /\ HandRead =>
               /\ handPredictions' = handPredictions
               /\ LET r == IF variant = "ts"
                           THEN GetHandStateTS(NewestHand, isPinchingState,
                                               consecutivePinchFrames)
                           ELSE GetHandStateJS(handIsReady, NewestHand, isPinchingState,
                                               consecutivePinchFrames)
                  IN  <<isPinchingState', consecutivePinchFrames'>> = <<r.stable, r.count>>
           /\ FaceRead =>
               /\ facePredictions' = facePredictions
               /\ LET r == IF variant = "ts"
                           THEN GetFaceStateTS(NewestFace, isSmiling,
                                               consecutiveSmileFrames)
                           ELSE GetFaceStateJS(faceIsReady, NewestFace, isSmiling,
                                               consecutiveSmileFrames)
                  IN  <<isSmiling', consecutiveSmileFrames'>> = <<r.smiling, r.count>>
         ]_vars

\* a pinching hand was delivered and replaced by an open hand before any call
\* read it; the call that followed classified the open hand
C22_Witness ==
    /\ held.hand.dropped = Some(Defined(<<MakeHand(100, 100, 120, 100)>>))
    /\ held.hand.newest = Some(Defined(<<MakeHand(100, 100, 160, 100)>>))
    /\ held.hand.reads = 1
    /\ handCall.raw = "neg"
    /\ consecutivePinchFrames = 0

\* C27: debouncing counts getState calls, not detector results.  One result
\* that classifies positive and is read by 3 calls in a row makes the pinch
\* stable, and one read by 5 calls in a row makes the smile stable, while no
\* other result has arrived.
C27_ReadsAreCounted ==
    /\ (held.hand.reads >= 3 /\ handCall.raw = "pos") =>
            handState.isPinching /\ isPinchingState
    /\ (held.face.reads >= 5 /\ faceCall.raw = "pos") =>
            faceState.isSmiling /\ isSmiling

\* the third call in a row on one delivered pinch, the counter having been 0
\* when that result arrived
C27_Witness ==
    /\ held.hand.reads = 3
    /\ pinchRun = 3
    /\ handCall.count = 2 /\ ~handCall.stable
    /\ handState.isPinching

\* C25: a stationary hand never moves the window.  While a drag session is
\* active, a tick whose getHandState call returns the position the previous
\* tick's call returned leaves the window where the previous tick left it.
C25_StationaryHandHoldsWindow ==
    [][ ( /\ Tick
          /\ pinch.active /\ pinch'.active
          /\ handTick.path = "ran" /\ handTick.pinching
          /\ handTick'.path = "ran" /\ handTick'.pinching
          /\ handState'.position = handState.position )
        => win' = win ]_vars

\* C26: in the React build the title bar can be reached by a pinch from inside
\* the video frame: some hand position with position.y > 0 (whole pixels of
\* the 640x480 frame) maps, through the window position of the current
\* render, to a screen position that passes the title-bar test of
\* Desktop.handlePinchStart.
C26_TitleBarReachableTS ==
    variant = "ts" =>
        \E px \in 0..VideoEl.videoWidth, py \in 1..VideoEl.videoHeight :
            LET screen == ScreenPosTS(rendered.x, rendered.y, rendered.width,
                                      Point(px, py), VideoEl)
            IN  OverTitleBar(screen.x, screen.y, rendered)

\* C29: in PhotoBoothApp at most one 3-2-1 countdown sequence is running at
\* any time, whichever of the capture button and the smile path calls
\* capturePhoto, and also before the component has rendered again with the
\* countdown a call has just set.
C29_OneCountdownTS ==
    variant = "ts" => Len(sequences) <= 1

\* C30: in PhotoBoothApp a smile tick that sets the cooldown also starts a
\* countdown, and so does a capture asked for by the button, also in the grid
\* view the application starts in.
C30_CaptureStartsCountdownTS ==
    [][ ( /\ variant = "ts"
          /\ \/ smileCooldown' /\ ~smileCooldown
             \/ OnCaptureClick /\ sequences = <<>> /\ rendered = Render )
        => /\ Len(sequences') = Len(sequences) + 1
           /\ countdown' = Some(3) ]_vars

\* C28: in main.js at most one capture sequence is in progress at any time,
\* under every interleaving of button clicks, space bar presses and smile
\* triggers; isCapturing is true exactly while a sequence is in progress; a
\* click, key press or tick that comes while isCapturing is true changes
\* neither; and every capture that has started sets isCapturing back to false
\* in the end, with or without a canvas to take the picture from.
C28_OneCaptureJS ==
    /\ []( /\ Len(sequences) <= 1
           /\ isCapturing <=> sequences # <<>> )
    /\ [][ (isCapturing /\ (OnCaptureClick \/ OnKeyDownSpace \/ Tick))
            => UNCHANGED <<sequences, isCapturing>> ]_vars
    /\ isCapturing ~> ~isCapturing

\* a capture has run to its end without a canvas, and a new one has started
C28_Witness ==
    /\ variant = "js"
    /\ shot = "nocanvas"
    /\ isCapturing
    /\ sequences = <<NewSequence>>

\* C23: the drag path and the smile-capture path are independent.  In every
\* run of detect that reaches the face part the smile counter and isSmiling
\* come out as the face call alone gives them (they stay as they are in a run
\* that does not), and the smile path triggers exactly when the smile is
\* stable, the cooldown gate is open and no capture is seen in progress,
\* whether or not a drag session is active; a run that does not trigger leaves
\* the gate and the capture state unchanged.  The pinch counter and the stable
\* pinch flag come out as the hand call alone gives them, and a run in which
\* the hand part has no drag effect leaves the drag session and the window
\* unchanged, whether or not a capture or a cooldown is in progress.
C23_PathsIndependent ==
    [][ Tick =>
          /\ <<isSmiling', consecutiveSmileFrames'>> =
                IF faceTick'.path = "ran"
                THEN <<FaceStateCall.smiling, FaceStateCall.count>>
                ELSE <<isSmiling, consecutiveSmileFrames>>
          /\ faceTick'.triggered <=>
                /\ faceTick'.path = "ran"
                /\ FaceStateCall.ret.isSmiling
                /\ ~smileCooldown
                /\ IF variant = "js" THEN ~isCapturing ELSE rendered.countdown = Null
          /\ ~faceTick'.triggered =>
                UNCHANGED <<smileCooldown, cooldownTimers, isCapturing, countdown,
                            sequences>>
          /\ <<isPinchingState', consecutivePinchFrames'>> =
                IF handReady THEN <<HandStateCall.stable, HandStateCall.count>>
                ELSE <<isPinchingState, consecutivePinchFrames>>
          /\ handTick'.effect = "none" => UNCHANGED <<pinch, win>>
      ]_vars

\* one run of detect in which the drag moved and the smile started a capture
C23_Witness ==
    /\ handTick.effect = "move"
    /\ pinch.active
    /\ faceTick.triggered
    /\ sequences = <<NewSequence>>

\* C24: a tracker whose initialisation was rejected is never marked ready and
\* its getState is never called, by any tick; the detection loop is started
\* all the same (main.js: when both promises have settled; PhotoBoothApp: when
\* a promise is fulfilled).
C24_InitFailureIsolated ==
    /\ []( /\ handPromise = "rejected" =>
                 ~handReady /\ handCall.raw = "none" /\ handTick.path # "ran"
           /\ facePromise = "rejected" =>
                 ~faceReady /\ faceCall.raw = "none" /\ faceTick.path # "ran"
           /\ (handReady \/ faceReady) => loop # "off" )
    /\ [][ (OnInitSettledJS \/ OnInitFulfilledTS) => loop' = "running" ]_vars

\* the hand tracker failed to initialise; a smile has triggered a capture
C24_Witness ==
    /\ handPromise = "rejected"
    /\ handTick.path = "skipped"
    /\ faceTick.triggered
    /\ loop = "running"

\* C33: the stabilizer invariants.  In every reachable state the stable pinch
\* flag is true only if the pinch counter is at least 3, the pinch counter is
\* 0 whenever the last getHandState call returned position null, isSmiling is
\* true only if the smile counter is at least 1, and no counter is negative.
C33_StabilizerInvariants ==
    /\ isPinchingState => consecutivePinchFrames >= 3
    /\ (HandCalled /\ handState.position = Null) => consecutivePinchFrames = 0
    /\ isSmiling => consecutiveSmileFrames >= 1
    /\ consecutivePinchFrames >= 0
    /\ consecutiveSmileFrames >= 0

\* a stable smile whose counter a negative frame has brought down to 1
C33_Witness ==
    /\ faceCall.raw = "neg"
    /\ faceCall.smiling /\ faceCall.count = 2
    /\ isSmiling
    /\ consecutiveSmileFrames = 1

\* C32: the TypeScript and the JavaScript extractors are equivalent.  Fed the
\* same sequence of snapshots while the JavaScript tracker is ready, the two
\* getHandState return the same isPinching, position and pinchDistance at
\* every step, and the two getFaceState return the same isSmiling,
\* mouthOpenness and mouthWidth.
C32_ExtractorsEquivalent ==
    /\ twin.hand.ret = handState
    /\ twin.face.ret = faceState

\* both builds keep an established pinch inside the hysteresis band
C32_Witness ==
    /\ handCall.raw = "pos"
    /\ handCall.stable
    /\ handState.isPinching
    /\ handState.pinchDistanceSq # Null
    /\ ~SqrtLess(handState.pinchDistanceSq[1], PINCH_THRESHOLD)
    /\ twin.hand.ret = handState
    /\ twin.hand.count = consecutivePinchFrames

\* C31: the window position stays in bounds.  In main.js, after a pinch
\* drag-move, a mouse drag-move or the viewport-resize handler, App.window.x >= 0
\* and App.window.y >= 24, x <= max(0, innerWidth - windowWidth) and
\* y <= max(24, innerHeight - 50); after Desktop.handleWindowMove,
\* 0 <= x <= max(0, innerWidth - 100) and 20 <= y <= max(20, innerHeight - 50).
C31_WindowInBounds ==
    /\ (variant = "js" /\ ui.last \in {"pinch", "mouse", "resize"}) =>
          /\ win.x >= 0
          /\ win.y >= PxY(24)
          /\ win.x <= Max(0, PxX(InnerWidth - layout.offsetWidth))
          /\ win.y <= Max(PxY(24), PxY(InnerHeight - 50))
    /\ (variant = "ts" /\ ui.last = "move") =>
          /\ win.x >= 0
          /\ win.x <= Max(0, PxX(InnerWidth - 100))
          /\ win.y >= PxY(20)
          /\ win.y <= Max(PxY(20), PxY(InnerHeight - 50))

\* a viewport narrower than the window and lower than 74 pixels: the resize
\* handler has put the window on the lower bounds
C31_Witness ==
    /\ variant = "js"
    /\ ui.last = "resize"
    /\ InnerWidth < layout.offsetWidth
    /\ InnerHeight - 50 < 24
    /\ win = Point(0, PxY(24))

\* C34: effects paging in main.js.  App.currentPage is always 0 or 1; setPage
\* with an out-of-range page or with the current page changes nothing; after a
\* setPage call that changes the page, the selected filter is one of the
\* filters shown on the new page.
C34_EffectsPaging ==
    /\ [](ui.currentPage \in {0, 1})
    /\ [][ ( /\ ui'.last \in {"setPage", "setPageReturned"}
             /\ \/ ui'.arg < 0
                \/ ui'.arg >= TOTAL_PAGES
                \/ ui'.arg = ui.currentPage )
           => /\ ui'.currentPage = ui.currentPage
              /\ ui'.currentFilter = ui.currentFilter ]_vars
    /\ [](ui.last = "setPage" =>
             \E i \in DOMAIN GetFiltersForPage(ui.currentPage) :
                 GetFiltersForPage(ui.currentPage)[i] = ui.currentFilter)

====
